---- MODULE Spec2Model ----
(***************************************************************************)
(* A model of the two-pass assembler: the instruction/directive parser     *)
(* (encoding.c), the word packers (isa.c), the symbol table (symbols.c),   *)
(* pass 1 (pass1.c), pass 2 (pass2.c) and the driver (assembler.c).        *)
(*                                                                         *)
(* A source line is a sequence of one-character strings, as fgets returns  *)
(* it (with its trailing newline).  A C pointer into a line is the pair    *)
(* (line, index); the index one past the end reads the terminating NUL.    *)
(***************************************************************************)
EXTENDS Integers, Sequences, FiniteSets, TLC

(***************************************************************************)
(* Characters and <ctype.h>                                                *)
(***************************************************************************)
NUL == "NUL"

Lower == {"a","b","c","d","e","f","g","h","i","j","k","l","m",
          "n","o","p","q","r","s","t","u","v","w","x","y","z"}

Upper == {"A","B","C","D","E","F","G","H","I","J","K","L","M",
          "N","O","P","Q","R","S","T","U","V","W","X","Y","Z"}

DigitChars == <<"0","1","2","3","4","5","6","7","8","9">>

Digit == {DigitChars[k] : k \in 1..10}

Alpha == Lower \cup Upper

Alnum == Alpha \cup Digit

Space == {" ", "\t", "\n", "\r", "\f"}

DigitVal(c) == (CHOOSE k \in 1..10 : DigitChars[k] = c) - 1

At(s, i) == IF i >= 1 /\ i <= Len(s) THEN s[i] ELSE NUL

Take(s, n) == IF Len(s) <= n THEN s ELSE SubSeq(s, 1, n)

RECURSIVE ScanWhile(_, _, _)
ScanWhile(s, i, set) == IF At(s, i) \in set THEN ScanWhile(s, i + 1, set) ELSE i

RECURSIVE IndexOf(_, _, _)
IndexOf(s, i, c) ==
    IF i > Len(s) THEN 0
    ELSE IF s[i] = c THEN i ELSE IndexOf(s, i + 1, c)

(***************************************************************************)
(* Program constants (defaults.h, isa.h, encoding.h, symbols.h)            *)
(***************************************************************************)
MAX_LINE_LEN == 80

MAX_LABEL_LEN == 31

MEMORY_CAPACITY == 256

IC_START == 100

IC_INIT == IC_START

WORD_MASK == 1023

ARE_A == 0

ARE_E == 1

ARE_R == 2

ADR_INVALID == 0

ADR_IMMEDIATE == 1

ADR_DIRECT == 2

ADR_MATRIX == 4

ADR_REGISTER == 8

SYM_CODE == "CODE"

SYM_DATA == "DATA"

SYM_EXTERN == "EXTERN"

SYM_ENTRY == "ENTRY"

(***************************************************************************)
(* Lexing primitives of encoding.c                                         *)
(***************************************************************************)
skip_ws(s, i) == ScanWhile(s, i, Space)

read_word(s, i) ==
    IF At(s, i) \notin (Alpha \cup {"_"})
    THEN [ok |-> FALSE, end |-> i]
    ELSE [ok |-> TRUE, end |-> ScanWhile(s, i + 1, Alnum \cup {"_"})]

RECURSIVE DigitsValue(_, _, _, _)
DigitsValue(s, i, e, acc) ==
    IF i >= e THEN acc ELSE DigitsValue(s, i + 1, e, 10 * acc + DigitVal(s[i]))

\* strtol(p, &e, 10): leading white space, an optional sign, decimal digits.
parse_int10(s, i) ==
    LET Result(a, b, e, v) ==
            IF e = b THEN [ok |-> FALSE, v |-> 0, end |-> i]
            ELSE [ok |-> TRUE, v |-> IF At(s, a) = "-" THEN 0 - v ELSE v, end |-> e]
        Digits(a, b, e) == Result(a, b, e, DigitsValue(s, b, e, 0))
        Signed(a, b) == Digits(a, b, ScanWhile(s, b, Digit))
        Trimmed(a) == Signed(a, IF At(s, a) \in {"+", "-"} THEN a + 1 ELSE a)
    IN  Trimmed(skip_ws(s, i))

parse_register(s, i) ==
    IF At(s, i) = "r" /\ At(s, i + 1) \in Digit /\ At(s, i + 2) \notin Alnum
       /\ DigitVal(At(s, i + 1)) <= 7
    THEN [ok |-> TRUE, reg |-> DigitVal(At(s, i + 1)), end |-> i + 2]
    ELSE [ok |-> FALSE, reg |-> 0, end |-> i]

\* sym_cap is the size of the caller's buffer; the label is cut to sym_cap - 1.
parse_operand(s, i0, sym_cap) ==
    LET Invalid == [mode |-> ADR_INVALID, end |-> i0, sym |-> <<>>]
        Imm(n) ==
            IF n.ok THEN [mode |-> ADR_IMMEDIATE, end |-> n.end, sym |-> <<>>] ELSE Invalid
        Word(i, w) ==
            IF w.ok
            THEN [mode |-> ADR_DIRECT, end |-> w.end,
                  sym |-> Take(SubSeq(s, i, w.end - 1), sym_cap - 1)]
            ELSE Invalid
        Reg(i, r) ==
            IF r.ok THEN [mode |-> ADR_REGISTER, end |-> r.end, sym |-> <<>>]
            ELSE Word(i, read_word(s, i))
        Trimmed(i) ==
            IF At(s, i) = "#" THEN Imm(parse_int10(s, i + 1))
            ELSE Reg(i, parse_register(s, i))
    IN  Trimmed(skip_ws(s, i0))

rest_is_comment_or_ws(s, i) == At(s, skip_ws(s, i)) \in {NUL, ";"}

\* cap is the size of the mnemonic buffer.
read_mnemonic(s, i0, cap) ==
    LET Word(i, w) ==
            IF w.ok
            THEN [ok |-> TRUE, end |-> w.end, buf |-> Take(SubSeq(s, i, w.end - 1), cap - 1)]
            ELSE [ok |-> FALSE, end |-> i0, buf |-> <<>>]
        Trimmed(i) == Word(i, read_word(s, i))
    IN  Trimmed(skip_ws(s, i0))

parse_comma(s, i) ==
    LET Trimmed(q) ==
            IF At(s, q) = "," THEN [ok |-> TRUE, end |-> q + 1] ELSE [ok |-> FALSE, end |-> i]
    IN  Trimmed(skip_ws(s, i))

\* One bracket of the suffix: '[', a register, ']'.
MatrixBracket(s, i) ==
    LET Closed(r, q) ==
            IF r.ok /\ At(s, q) = "]"
            THEN [ok |-> TRUE, reg |-> r.reg, end |-> q + 1]
            ELSE [ok |-> FALSE, reg |-> 0, end |-> i]
        Inside(r) == Closed(r, skip_ws(s, r.end))
        Opened(q) ==
            IF At(s, q) = "[" THEN Inside(parse_register(s, skip_ws(s, q + 1)))
            ELSE [ok |-> FALSE, reg |-> 0, end |-> i]
    IN  Opened(skip_ws(s, i))

parse_matrix_suffix(s, i) ==
    LET Fail == [ok |-> FALSE, row |-> 0, col |-> 0, end |-> i]
        Second(b1, b2) ==
            IF b2.ok THEN [ok |-> TRUE, row |-> b1.reg, col |-> b2.reg, end |-> b2.end]
            ELSE Fail
        First(b1) == IF b1.ok THEN Second(b1, MatrixBracket(s, b1.end)) ELSE Fail
    IN  First(MatrixBracket(s, i))

(***************************************************************************)
(* The opcode table and the two instruction parsers of encoding.c          *)
(***************************************************************************)
AM_ALL == {ADR_IMMEDIATE, ADR_DIRECT, ADR_REGISTER, ADR_MATRIX}

AM_NOIMM == {ADR_DIRECT, ADR_REGISTER, ADR_MATRIX}

AM_ONLYDIR == {ADR_DIRECT, ADR_MATRIX}

OpRow(name, opcode, argc, src_ok, dst_ok) ==
    [name |-> name, opcode |-> opcode, argc |-> argc, src_ok |-> src_ok, dst_ok |-> dst_ok]

OPS ==
    << OpRow(<<"m","o","v">>,      0, 2, AM_ALL,     AM_NOIMM),
       OpRow(<<"c","m","p">>,      1, 2, AM_ALL,     AM_ALL),
       OpRow(<<"a","d","d">>,      2, 2, AM_ALL,     AM_NOIMM),
       OpRow(<<"s","u","b">>,      3, 2, AM_ALL,     AM_NOIMM),
       OpRow(<<"l","e","a">>,      4, 2, AM_ONLYDIR, AM_NOIMM),
       OpRow(<<"c","l","r">>,      5, 1, {},         AM_NOIMM),
       OpRow(<<"n","o","t">>,      6, 1, {},         AM_NOIMM),
       OpRow(<<"i","n","c">>,      7, 1, {},         AM_NOIMM),
       OpRow(<<"d","e","c">>,      8, 1, {},         AM_NOIMM),
       OpRow(<<"j","m","p">>,      9, 1, {},         AM_ONLYDIR),
       OpRow(<<"b","n","e">>,     10, 1, {},         AM_ONLYDIR),
       OpRow(<<"r","e","d">>,     11, 1, {},         AM_NOIMM),
       OpRow(<<"p","r","n">>,     12, 1, {},         AM_ALL),
       OpRow(<<"j","s","r">>,     13, 1, {},         AM_ONLYDIR),
       OpRow(<<"r","t","s">>,     14, 0, {},         {}),
       OpRow(<<"s","t","o","p">>, 15, 0, {},         {}) >>

find_op(mnemonic) ==
    LET Row(table, hits) ==
            IF hits = {} THEN [ok |-> FALSE, spec |-> table[1]]
            ELSE [ok |-> TRUE, spec |-> table[CHOOSE k \in hits : \A j \in hits : k <= j]]
        Scan(table) == Row(table, {k \in 1..Len(table) : table[k].name = mnemonic})
    IN  Scan(OPS)

\* Variant: a matrix operand counted as one word.
words_for_mode_flat(m) ==
    IF m \in {ADR_REGISTER, ADR_IMMEDIATE, ADR_DIRECT, ADR_MATRIX} THEN 1 ELSE 0

words_for_mode(m) ==
    IF m = ADR_REGISTER THEN 1
    ELSE IF m = ADR_IMMEDIATE THEN 1
    ELSE IF m = ADR_DIRECT THEN 1
    ELSE IF m = ADR_MATRIX THEN 2
    ELSE 0

SizeFail(msg) == [ok |-> FALSE, words |-> 0, operands |-> 0, err |-> msg]

SizeOk(words, operands) == [ok |-> TRUE, words |-> words, operands |-> operands, err |-> ""]

\* An operand followed by its optional matrix suffix: the mode, and where it ends.
OperandWithSuffix(s, i, sym_cap) ==
    LET Upgrade(o, up, m) ==
            [raw |-> o.mode,
             mode |-> IF up THEN ADR_MATRIX ELSE o.mode,
             end |-> IF up THEN m.end ELSE o.end,
             sym |-> o.sym,
             row |-> IF up THEN m.row ELSE 0,
             col |-> IF up THEN m.col ELSE 0]
        Suffix(o, m) == Upgrade(o, o.mode = ADR_DIRECT /\ m.ok, m)
        Parsed(o) == Suffix(o, parse_matrix_suffix(s, o.end))
    IN  Parsed(parse_operand(s, i, sym_cap))

EstimateSizeTwo(s, p, spec) ==
    LET Check(src, cm, dst) ==
            IF At(s, skip_ws(s, p)) \in {",", NUL, ";"} THEN SizeFail("missing source operand")
            ELSE IF src.raw = ADR_INVALID THEN SizeFail("invalid source operand")
            ELSE IF ~cm.ok THEN SizeFail("expected comma between operands")
            ELSE IF At(s, skip_ws(s, cm.end)) \in {NUL, ";"}
                 THEN SizeFail("missing destination operand")
            ELSE IF dst.raw = ADR_INVALID THEN SizeFail("invalid destination operand")
            ELSE IF src.mode \notin spec.src_ok
                 THEN SizeFail("addressing mode not allowed for source")
            ELSE IF dst.mode \notin spec.dst_ok
                 THEN SizeFail("addressing mode not allowed for destination")
            ELSE IF ~rest_is_comment_or_ws(s, dst.end)
                 THEN SizeFail("unexpected text after instruction")
            ELSE IF src.mode = ADR_REGISTER /\ dst.mode = ADR_REGISTER
                 THEN SizeOk(1 + 1, 2)
            ELSE SizeOk(1 + (words_for_mode(src.mode) + words_for_mode(dst.mode)), 2)
        WithComma(src, cm) == Check(src, cm, OperandWithSuffix(s, cm.end, 64))
        WithSrc(src) == WithComma(src, parse_comma(s, src.end))
    IN  WithSrc(OperandWithSuffix(s, p, 64))

EstimateSizeOne(s, p, spec) ==
    LET Check(dst) ==
            IF dst.raw = ADR_INVALID THEN SizeFail("invalid operand")
            ELSE IF dst.mode \notin spec.dst_ok THEN SizeFail("addressing mode not allowed")
            ELSE IF ~rest_is_comment_or_ws(s, dst.end)
                 THEN SizeFail("unexpected text after instruction")
            ELSE SizeOk(1 + words_for_mode(dst.mode), 1)
    IN  Check(OperandWithSuffix(s, p, 64))

\* instr is the pointer (s, i): the text of line s from index i on.
encoding_estimate_size(s, i) ==
    LET Sized(mn, op) ==
            IF ~mn.ok THEN SizeFail("expected instruction mnemonic")
            ELSE IF ~op.ok THEN SizeFail("unknown mnemonic")
            ELSE IF op.spec.argc = 2 THEN EstimateSizeTwo(s, mn.end, op.spec)
            ELSE IF op.spec.argc = 1 THEN EstimateSizeOne(s, mn.end, op.spec)
            ELSE IF ~rest_is_comment_or_ws(s, mn.end)
                 THEN SizeFail("unexpected text after zero-operand instruction")
            ELSE SizeOk(1, 0)
        Named(mn) == Sized(mn, find_op(mn.buf))
    IN  Named(read_mnemonic(s, i, 32))

ParsedInstr0 ==
    [argc |-> 0, opcode |-> 0, src_mode |-> ADR_INVALID, dst_mode |-> ADR_INVALID,
     src_imm |-> 0, dst_imm |-> 0, src_sym |-> <<>>, dst_sym |-> <<>>,
     src_reg |-> 0, dst_reg |-> 0,
     src_mat_row |-> 0, src_mat_col |-> 0, dst_mat_row |-> 0, dst_mat_col |-> 0]

ParseFail(msg) == [ok |-> FALSE, err |-> msg, pi |-> ParsedInstr0]

ParseOk(pi) == [ok |-> TRUE, err |-> "", pi |-> pi]

\* The payload re-read from the start of the operand token (op_start).
OperandImm(s, op_start) == parse_int10(s, skip_ws(s, op_start) + 1)

OperandReg(s, op_start) == parse_register(s, skip_ws(s, op_start))

\* One operand block of encoding_parse_instruction: the operand at op_start,
\* its payload re-read from op_start, and its matrix suffix.
ParsedOperand(s, op_start) ==
    LET Block(o, imm, reg) ==
            [raw |-> o.raw, mode |-> o.mode, end |-> o.end, sym |-> o.sym,
             row |-> o.row, col |-> o.col,
             hash |-> At(s, skip_ws(s, op_start)) = "#",
             imm_ok |-> imm.ok, imm |-> imm.v,
             reg_ok |-> reg.ok, reg |-> reg.reg]
    IN  Block(OperandWithSuffix(s, op_start, MAX_LABEL_LEN),
              OperandImm(s, op_start), OperandReg(s, op_start))

ParseInstrTwo(s, p, spec) ==
    LET Check(src, cm, dst) ==
            IF At(s, skip_ws(s, p)) \in {",", NUL, ";"}
            THEN ParseFail("missing source operand")
            ELSE IF src.raw = ADR_INVALID THEN ParseFail("invalid source operand")
            ELSE IF src.raw = ADR_IMMEDIATE /\ ~src.imm_ok THEN ParseFail("invalid immediate")
            ELSE IF src.raw = ADR_REGISTER /\ ~src.reg_ok THEN ParseFail("invalid register")
            ELSE IF ~cm.ok THEN ParseFail("expected comma between operands")
            ELSE IF At(s, skip_ws(s, cm.end)) \in {NUL, ";"}
                 THEN ParseFail("missing destination operand")
            ELSE IF dst.raw = ADR_INVALID THEN ParseFail("invalid destination operand")
            ELSE IF dst.raw = ADR_IMMEDIATE /\ (~dst.hash \/ ~dst.imm_ok)
                 THEN ParseFail("invalid immediate")
            ELSE IF dst.raw = ADR_REGISTER /\ ~dst.reg_ok THEN ParseFail("invalid register")
            ELSE IF src.mode \notin spec.src_ok
                 THEN ParseFail("addressing mode not allowed for source")
            ELSE IF dst.mode \notin spec.dst_ok
                 THEN ParseFail("addressing mode not allowed for destination")
            ELSE IF ~rest_is_comment_or_ws(s, dst.end)
                 THEN ParseFail("unexpected text after instruction")
            ELSE ParseOk([ParsedInstr0 EXCEPT
                     !.argc = 2, !.opcode = spec.opcode,
                     !.src_mode = src.mode, !.dst_mode = dst.mode,
                     !.src_imm = IF src.raw = ADR_IMMEDIATE THEN src.imm ELSE 0,
                     !.dst_imm = IF dst.raw = ADR_IMMEDIATE THEN dst.imm ELSE 0,
                     !.src_reg = IF src.raw = ADR_REGISTER THEN src.reg ELSE 0,
                     !.dst_reg = IF dst.raw = ADR_REGISTER THEN dst.reg ELSE 0,
                     !.src_sym = src.sym, !.dst_sym = dst.sym,
                     !.src_mat_row = src.row, !.src_mat_col = src.col,
                     !.dst_mat_row = dst.row, !.dst_mat_col = dst.col])
        WithComma(src, cm) == Check(src, cm, ParsedOperand(s, cm.end))
        WithSrc(src) == WithComma(src, parse_comma(s, src.end))
    IN  WithSrc(ParsedOperand(s, p))

ParseInstrOne(s, p, spec) ==
    LET Check(dst) ==
            IF dst.raw = ADR_INVALID THEN ParseFail("invalid operand")
            ELSE IF dst.raw = ADR_IMMEDIATE /\ (~dst.hash \/ ~dst.imm_ok)
                 THEN ParseFail("invalid immediate")
            ELSE IF dst.raw = ADR_REGISTER /\ ~dst.reg_ok THEN ParseFail("invalid register")
            ELSE IF dst.mode \notin spec.dst_ok THEN ParseFail("addressing mode not allowed")
            ELSE IF ~rest_is_comment_or_ws(s, dst.end)
                 THEN ParseFail("unexpected text after instruction")
            ELSE ParseOk([ParsedInstr0 EXCEPT
                     !.argc = 1, !.opcode = spec.opcode, !.dst_mode = dst.mode,
                     !.dst_imm = IF dst.raw = ADR_IMMEDIATE THEN dst.imm ELSE 0,
                     !.dst_reg = IF dst.raw = ADR_REGISTER THEN dst.reg ELSE 0,
                     !.dst_sym = dst.sym,
                     !.dst_mat_row = dst.row, !.dst_mat_col = dst.col])
    IN  Check(ParsedOperand(s, p))

encoding_parse_instruction(s, i) ==
    LET Parsed(mn, op) ==
            IF ~mn.ok THEN ParseFail("expected instruction mnemonic")
            ELSE IF ~op.ok THEN ParseFail("unknown mnemonic")
            ELSE IF op.spec.argc = 2 THEN ParseInstrTwo(s, mn.end, op.spec)
            ELSE IF op.spec.argc = 1 THEN ParseInstrOne(s, mn.end, op.spec)
            ELSE IF ~rest_is_comment_or_ws(s, mn.end)
                 THEN ParseFail("unexpected text after zero-operand instruction")
            ELSE ParseOk([ParsedInstr0 EXCEPT !.argc = 0, !.opcode = op.spec.opcode])
        Named(mn) == Parsed(mn, find_op(mn.buf))
    IN  Named(read_mnemonic(s, i, 32))

\* The index of the ';' that starts the comment (0: none); quotes protect a ';'.
RECURSIVE CommentStart(_, _, _, _)
CommentStart(s, i, in_str, esc) ==
    IF i > Len(s) THEN 0
    ELSE IF in_str
         THEN IF esc THEN CommentStart(s, i + 1, TRUE, FALSE)
              ELSE IF s[i] = "\\" THEN CommentStart(s, i + 1, TRUE, TRUE)
              ELSE IF s[i] = "\"" THEN CommentStart(s, i + 1, FALSE, FALSE)
              ELSE CommentStart(s, i + 1, TRUE, FALSE)
         ELSE IF s[i] = "\"" THEN CommentStart(s, i + 1, TRUE, esc)
              ELSE IF s[i] = ";" THEN i
              ELSE CommentStart(s, i + 1, FALSE, esc)

strip_comment_inplace(s) ==
    LET c == CommentStart(s, 1, FALSE, FALSE)
    IN  IF c = 0 THEN s ELSE SubSeq(s, 1, c - 1)

(***************************************************************************)
(* Word packers of isa.c (10-bit words)                                    *)
(***************************************************************************)
isa_pack_are(w, are2) == ((w - (w % 4)) + (are2 % 4)) % (WORD_MASK + 1)

isa_mode_code(m) ==
    IF m = ADR_IMMEDIATE THEN 0
    ELSE IF m = ADR_DIRECT THEN 1
    ELSE IF m = ADR_MATRIX THEN 2
    ELSE IF m = ADR_REGISTER THEN 3
    ELSE 0

\* A side that is absent is passed as -1 and leaves its field zero.
isa_first_word(opcode, src_mode_or_minus1, dst_mode_or_minus1) ==
    isa_pack_are((opcode % 16) * 64
                 + (IF src_mode_or_minus1 >= 0
                    THEN (isa_mode_code(src_mode_or_minus1) % 4) * 16 ELSE 0)
                 + (IF dst_mode_or_minus1 >= 0
                    THEN (isa_mode_code(dst_mode_or_minus1) % 4) * 4 ELSE 0),
                 ARE_A)

isa_word_imm(v) == isa_pack_are((v % 256) * 4, ARE_A)

\* Variant: a local address word tagged absolute.
isa_word_reloc_abs(v) == isa_pack_are((v % 256) * 4, ARE_A)

isa_word_reloc(v) == isa_pack_are((v % 256) * 4, ARE_R)

isa_word_extern == isa_pack_are(0, ARE_E)

\* Variant: the two register fields exchanged.
isa_word_regs_pair_swapped(src_reg, dst_reg) ==
    isa_pack_are((dst_reg % 16) * 64 + (src_reg % 16) * 4, ARE_A)

isa_word_regs_pair(src_reg, dst_reg) ==
    isa_pack_are((src_reg % 16) * 64 + (dst_reg % 16) * 4, ARE_A)

isa_word_reg_src(src_reg) == isa_pack_are((src_reg % 16) * 64, ARE_A)

isa_word_reg_dst(dst_reg) == isa_pack_are((dst_reg % 16) * 4, ARE_A)

(***************************************************************************)
(* Error aggregator (errors.c) and image buffer (codeimg.h)                *)
(***************************************************************************)
\* One diagnostic: the line, the message, and the name and line it cites.
ErrorItem(line, msg, name, ref) == [line |-> line, msg |-> msg, name |-> name, ref |-> ref]

errors_addf(e, line, msg, name, ref) == Append(e, ErrorItem(line, msg, name, ref))

errors_count(e) == Len(e)

\* An image is the sequence of its words' values, each a 10-bit word.
codeimg_push_word(img, value) == Append(img, value % (WORD_MASK + 1))

codeimg_size(img) == Len(img)

codeimg_relocate_data_after_code(code, data) == code \o data

(***************************************************************************)
(* Symbol table (symbols.c): a sequence of symbols in insertion order      *)
(***************************************************************************)
Symbol(name, value, attrs, def_line) ==
    [name |-> name, value |-> value, attrs |-> attrs, def_line |-> def_line]

SYMBOL_IS_DEFINED(sym) == sym.attrs \cap {SYM_CODE, SYM_DATA} # {}

SYMBOL_IS_EXTERN(sym) == SYM_EXTERN \in sym.attrs

SYMBOL_IS_ENTRY(sym) == SYM_ENTRY \in sym.attrs

\* The index of the first symbol with this name, 0 (the code's -1) if none.
symbols_find_idx(s, name) ==
    IF \E k \in 1..Len(s) : s[k].name = name
    THEN CHOOSE k \in 1..Len(s) :
            s[k].name = name /\ \A j \in 1..(k - 1) : s[j].name # name
    ELSE 0

symbols_insert(s, name, value, attrs, def_line) ==
    Append(s, Symbol(name, value, attrs, def_line))

SymResult(ok, s, e) == [ok |-> ok, symbols |-> s, errors |-> e]

\* Variant: an extern record accepts a later definition.
symbols_define_over_extern(s, name, value, attrs, def_line, errs) ==
    LET kind_mask == {SYM_CODE, SYM_DATA, SYM_EXTERN}
        Existing(idx) ==
            IF s[idx].attrs \cap {SYM_CODE, SYM_DATA} # {}
            THEN SymResult(FALSE, s,
                     errors_addf(errs, def_line, "duplicate label", name, s[idx].def_line))
            ELSE SymResult(TRUE,
                     [s EXCEPT ![idx] = [@ EXCEPT !.value = value,
                                                  !.attrs = @ \cup (attrs \cap kind_mask),
                                                  !.def_line = def_line]],
                     errs)
        Found(idx) ==
            IF idx >= 1 THEN Existing(idx)
            ELSE SymResult(TRUE, symbols_insert(s, name, value, attrs, def_line), errs)
    IN  IF attrs \cap kind_mask = {} THEN SymResult(FALSE, s, errs)
        ELSE Found(symbols_find_idx(s, name))

\* Variant: a rejected definition still overwrites the record's value and line.
symbols_define_overwriting(s, name, value, attrs, def_line, errs) ==
    LET kind_mask == {SYM_CODE, SYM_DATA, SYM_EXTERN}
        Overwritten(idx) == [s EXCEPT ![idx] = [@ EXCEPT !.value = value,
                                                         !.def_line = def_line]]
        Existing(idx) ==
            IF SYM_EXTERN \in s[idx].attrs
            THEN SymResult(FALSE, Overwritten(idx),
                     errors_addf(errs, def_line, "cannot define external symbol",
                                 name, s[idx].def_line))
            ELSE IF s[idx].attrs \cap {SYM_CODE, SYM_DATA} # {}
            THEN SymResult(FALSE, Overwritten(idx),
                     errors_addf(errs, def_line, "duplicate label", name, s[idx].def_line))
            ELSE SymResult(TRUE,
                     [s EXCEPT ![idx] = [@ EXCEPT !.value = value,
                                                  !.attrs = @ \cup (attrs \cap kind_mask),
                                                  !.def_line = def_line]],
                     errs)
        Found(idx) ==
            IF idx >= 1 THEN Existing(idx)
            ELSE SymResult(TRUE, symbols_insert(s, name, value, attrs, def_line), errs)
    IN  IF attrs \cap kind_mask = {} THEN SymResult(FALSE, s, errs)
        ELSE Found(symbols_find_idx(s, name))

symbols_define(s, name, value, attrs, def_line, errs) ==
    LET kind_mask == {SYM_CODE, SYM_DATA, SYM_EXTERN}
        idx == symbols_find_idx(s, name)
    IN  IF attrs \cap kind_mask = {} THEN SymResult(FALSE, s, errs)
        ELSE IF idx >= 1
        THEN IF SYM_EXTERN \in s[idx].attrs
             THEN SymResult(FALSE, s,
                      errors_addf(errs, def_line, "cannot define external symbol",
                                  name, s[idx].def_line))
             ELSE IF s[idx].attrs \cap {SYM_CODE, SYM_DATA} # {}
             THEN SymResult(FALSE, s,
                      errors_addf(errs, def_line, "duplicate label", name, s[idx].def_line))
             ELSE SymResult(TRUE,
                      [s EXCEPT ![idx] = [@ EXCEPT !.value = value,
                                                   !.attrs = @ \cup (attrs \cap kind_mask),
                                                   !.def_line = def_line]],
                      errs)
        ELSE SymResult(TRUE, symbols_insert(s, name, value, attrs, def_line), errs)

symbols_mark_entry(s, name, line, errs) ==
    LET idx == symbols_find_idx(s, name)
    IN  IF idx >= 1
        THEN IF SYM_EXTERN \in s[idx].attrs
             THEN SymResult(FALSE, s,
                      errors_addf(errs, line, "marked .entry but also declared .extern",
                                  name, 0))
             ELSE SymResult(TRUE, [s EXCEPT ![idx].attrs = @ \cup {SYM_ENTRY}], errs)
        ELSE SymResult(TRUE, symbols_insert(s, name, 0, {SYM_ENTRY}, 0), errs)

symbols_lookup(s, name) ==
    LET idx == symbols_find_idx(s, name)
    IN  IF idx < 1 THEN [found |-> FALSE, sym |-> Symbol(<<>>, 0, {}, 0)]
        ELSE [found |-> TRUE, sym |-> s[idx]]

\* Variant: every symbol relocated, whatever its kind.
symbols_relocate_all(s, ic_final) ==
    [k \in 1..Len(s) |-> [s[k] EXCEPT !.value = @ + ic_final]]

symbols_relocate_data(s, ic_final) ==
    [k \in 1..Len(s) |->
        IF SYM_DATA \in s[k].attrs THEN [s[k] EXCEPT !.value = @ + ic_final] ELSE s[k]]

(***************************************************************************)
(* Directive parsers of encoding.c: they push into the data image and      *)
(* return the number of words pushed, or -1 with one diagnostic            *)
(***************************************************************************)
\* The printable ASCII characters, from code 32 (space) to 126; "GRAVE" stands
\* for the grave accent (code 96), which is not written in a line of the model.
Printable ==
    <<" ","!","\"","#","$","%","&","'","(",")","*","+",",","-",".","/",
      "0","1","2","3","4","5","6","7","8","9",":",";","<","=",">","?",
      "@","A","B","C","D","E","F","G","H","I","J","K","L","M","N","O",
      "P","Q","R","S","T","U","V","W","X","Y","Z","[","\\","]","^","_",
      "GRAVE","a","b","c","d","e","f","g","h","i","j","k","l","m","n","o",
      "p","q","r","s","t","u","v","w","x","y","z","{","|","}","~">>

\* (unsigned char)c
Ord(c) ==
    IF c = "\t" THEN 9
    ELSE IF c = "\n" THEN 10
    ELSE IF c = "\f" THEN 12
    ELSE IF c = "\r" THEN 13
    ELSE 31 + (CHOOSE k \in 1..Len(Printable) : Printable[k] = c)

DirResult(n, data, err) == [n |-> n, data |-> data, err |-> err]

parse_symbol_name(s, i, outsz) ==
    LET Word(a, w) ==
            IF w.ok THEN [ok |-> TRUE, name |-> Take(SubSeq(s, a, w.end - 1), outsz - 1)]
            ELSE [ok |-> FALSE, name |-> <<>>]
        Trimmed(a) == Word(a, read_word(s, a))
    IN  Trimmed(skip_ws(s, i))

RECURSIVE DataLoop(_, _, _, _, _)
DataLoop(s, p0, expect_number, count, data) ==
    LET Bad == DirResult(-1, data, "malformed .data list")
        Number(n) ==
            IF ~n.ok THEN Bad
            ELSE DataLoop(s, skip_ws(s, n.end), FALSE, count + 1,
                          codeimg_push_word(data, n.v))
        Comma(q) ==
            IF At(s, q) \in {";", NUL} THEN Bad ELSE DataLoop(s, q, TRUE, count, data)
        At_(p) ==
            IF expect_number
            THEN IF At(s, p) \in {",", ";", NUL} THEN Bad ELSE Number(parse_int10(s, p))
            ELSE IF At(s, p) = "," THEN Comma(skip_ws(s, p + 1))
            ELSE IF At(s, p) \in {";", NUL}
                 THEN IF count <= 0 THEN Bad ELSE DirResult(count, data, "")
            ELSE Bad
    IN  At_(skip_ws(s, p0))

parse_and_push_data_operands(s, i, data) ==
    LET Trimmed(p) ==
            IF At(s, p) \in {";", NUL} THEN DirResult(-1, data, "malformed .data list")
            ELSE DataLoop(s, p, TRUE, 0, data)
    IN  Trimmed(skip_ws(s, i))

RECURSIVE StringLoop(_, _, _, _)
StringLoop(s, p, pushed, data) ==
    IF At(s, p) \notin {NUL, "\""}
    THEN IF At(s, p) = "\\" /\ At(s, p + 1) # NUL
         THEN StringLoop(s, p + 2, pushed + 1, codeimg_push_word(data, Ord(At(s, p + 1))))
         ELSE StringLoop(s, p + 1, pushed + 1, codeimg_push_word(data, Ord(At(s, p))))
    ELSE IF At(s, p) # "\""
         THEN DirResult(-1, data, "missing closing quote in .string")
    ELSE IF ~rest_is_comment_or_ws(s, p + 1)
         THEN DirResult(-1, codeimg_push_word(data, 0), "unexpected text after .string")
    ELSE DirResult(pushed + 1, codeimg_push_word(data, 0), "")

parse_and_push_string(s, i, data) ==
    LET Trimmed(p) ==
            IF At(s, p) # "\"" THEN DirResult(-1, data, ".string expects a quoted literal")
            ELSE StringLoop(s, p + 1, 0, data)
    IN  Trimmed(skip_ws(s, i))

\* n times codeimg_push_word(data, 0); written without recursion so that a
\* large matrix does not exhaust the evaluation stack.
PushZeros(data, n) ==
    IF n <= 0 THEN data
    ELSE data \o [k \in 1..n |-> Head(codeimg_push_word(<<>>, 0))]

RECURSIVE MatLoop(_, _, _, _, _, _)
MatLoop(s, p0, expect_number, filled, total, data) ==
    LET Bad == DirResult(-1, data, "malformed .mat definition")
        Number(n) ==
            IF ~n.ok THEN Bad
            ELSE IF filled >= total THEN Bad
            ELSE MatLoop(s, skip_ws(s, n.end), FALSE, filled + 1, total,
                         codeimg_push_word(data, n.v))
        Comma(q) ==
            IF At(s, q) \in {NUL, ";"} THEN Bad ELSE MatLoop(s, q, TRUE, filled, total, data)
        At_(p) ==
            IF expect_number
            THEN IF At(s, p) \in {",", NUL, ";"} THEN Bad ELSE Number(parse_int10(s, p))
            ELSE IF At(s, p) = "," THEN Comma(skip_ws(s, p + 1))
            ELSE IF At(s, p) \in {NUL, ";"}
                 THEN DirResult(total, PushZeros(data, total - filled), "")
            ELSE Bad
    IN  At_(skip_ws(s, p0))

\* One dimension of .mat: '[', a number, ']'.
MatDimension(s, i) ==
    LET Fail == [ok |-> FALSE, v |-> 0, end |-> i]
        Closed(n, q) == IF At(s, q) = "]" THEN [ok |-> TRUE, v |-> n.v, end |-> q + 1] ELSE Fail
        Number(n) == IF n.ok THEN Closed(n, skip_ws(s, n.end)) ELSE Fail
        Opened(q) == IF At(s, q) = "[" THEN Number(parse_int10(s, q + 1)) ELSE Fail
    IN  Opened(skip_ws(s, i))

parse_and_push_mat(s, i, data) ==
    LET Bad == DirResult(-1, data, "malformed .mat definition")
        Values(total, p) ==
            IF At(s, p) \in {NUL, ";"} THEN DirResult(total, PushZeros(data, total), "")
            ELSE MatLoop(s, p, TRUE, 0, total, data)
        Cols(rows, cols) ==
            IF ~cols.ok THEN Bad
            ELSE IF rows.v <= 0 \/ cols.v <= 0 THEN Bad
            ELSE IF rows.v * cols.v <= 0 THEN Bad
            ELSE Values(rows.v * cols.v, skip_ws(s, cols.end))
        Rows(rows) == IF ~rows.ok THEN Bad ELSE Cols(rows, MatDimension(s, rows.end))
    IN  Rows(MatDimension(s, i))

(***************************************************************************)
(* Pass 1 (pass1.c).  r is the Pass1Result; used is the shared name set    *)
(* g_used_names of assembler.c                                             *)
(***************************************************************************)
DOT_DATA == <<".","d","a","t","a">>

DOT_STRING == <<".","s","t","r","i","n","g">>

DOT_MAT == <<".","m","a","t">>

DOT_EXTERN == <<".","e","x","t","e","r","n">>

DOT_ENTRY == <<".","e","n","t","r","y">>

k_reserved_words ==
    {OPS[k].name : k \in 1..Len(OPS)}
        \cup {DOT_DATA, DOT_STRING, DOT_ENTRY, DOT_EXTERN, DOT_MAT}

is_reserved_identifier(s) == s \in k_reserved_words

has_prefix(s, i, prefix) == \A k \in 1..Len(prefix) : At(s, i + k - 1) = prefix[k]

ltrim(s, i) == ScanWhile(s, i, Space)

empty_or_comment(s, i) == At(s, ltrim(s, i)) \in {NUL, ";"}

ns_contains(used, name) == name \in used

init_result ==
    [symbols |-> <<>>, code |-> <<>>, data |-> <<>>, ic |-> IC_INIT, dc |-> 0,
     errors |-> <<>>, ok |-> TRUE]

LabelNone(p) == [bad |-> FALSE, after |-> p, label |-> <<>>, err |-> "", name |-> <<>>]

LabelBad(msg, shown) == [bad |-> TRUE, after |-> 0, label |-> <<>>, err |-> msg, name |-> shown]

\* bad: the code's NULL return; after: the index just after the colon, or p.
read_optional_label(line, p, cap) ==
    LET Named(s, colon, text, out) ==
            IF \E q \in (s + 1)..(colon - 1) : line[q] \notin Alnum
            THEN LabelBad("illegal label name", text)
            ELSE IF colon - s > MAX_LABEL_LEN
                 THEN LabelBad("illegal label name (too long)", text)
            ELSE IF is_reserved_identifier(out)
                 THEN LabelBad("illegal label name (reserved)", out)
            ELSE [bad |-> FALSE, after |-> colon + 1, label |-> out, err |-> "", name |-> out]
        Text(s, colon, text) ==
            IF At(line, s) \notin Alpha THEN LabelBad("illegal label name", text)
            ELSE Named(s, colon, text, Take(text, cap - 1))
        Colon(s, colon) ==
            IF colon = 0 THEN LabelNone(p) ELSE Text(s, colon, SubSeq(line, s, colon - 1))
        Trimmed(s) == Colon(s, IndexOf(line, s, ":"))
    IN  Trimmed(ltrim(line, p))

RECURSIVE push_placeholders(_, _)
push_placeholders(code, n) ==
    IF n <= 0 THEN code ELSE push_placeholders(codeimg_push_word(code, 0), n - 1)

\* Variant: only the first error of the pass is recorded.
Pass1Error_first(r, lineno, msg, name) ==
    IF ~r.ok THEN r
    ELSE [r EXCEPT !.errors = errors_addf(@, lineno, msg, name, 0), !.ok = FALSE]

Pass1Error(r, lineno, msg, name) ==
    [r EXCEPT !.errors = errors_addf(@, lineno, msg, name, 0), !.ok = FALSE]

\* Variant: DC advanced by one less than the count pushed.
DataDirective_short(res, label, r, lineno, used) ==
    LET Parsed(r1) ==
            IF res.n < 0
            THEN [r1 EXCEPT !.data = res.data,
                            !.errors = errors_addf(@, lineno, res.err, <<>>, 0),
                            !.ok = FALSE]
            ELSE [r1 EXCEPT !.data = res.data, !.dc = @ + res.n - 1]
        Defined(def) ==
            Parsed([r EXCEPT !.symbols = def.symbols, !.errors = def.errors,
                             !.ok = IF def.ok THEN @ ELSE FALSE])
    IN  IF label = <<>> THEN Parsed(r)
        ELSE IF ns_contains(used, label)
        THEN Pass1Error(r, lineno, "conflicts with macro name", label)
        ELSE Defined(symbols_define(r.symbols, label, r.dc, {SYM_DATA}, lineno, r.errors))

\* The common shape of .data, .string and .mat: res is the parser's result
\* on the data image as it stands.
DataDirective(res, label, r, lineno, used) ==
    LET Parsed(r1) ==
            IF res.n < 0
            THEN [r1 EXCEPT !.data = res.data,
                            !.errors = errors_addf(@, lineno, res.err, <<>>, 0),
                            !.ok = FALSE]
            ELSE [r1 EXCEPT !.data = res.data, !.dc = @ + res.n]
        Defined(def) ==
            Parsed([r EXCEPT !.symbols = def.symbols, !.errors = def.errors,
                             !.ok = IF def.ok THEN @ ELSE FALSE])
    IN  IF label = <<>> THEN Parsed(r)
        ELSE IF ns_contains(used, label)
        THEN Pass1Error(r, lineno, "conflicts with macro name", label)
        ELSE Defined(symbols_define(r.symbols, label, r.dc, {SYM_DATA}, lineno, r.errors))

\* The symbol-table call of .extern or .entry, folded into r.
SymbolDirective(res, r) ==
    [r EXCEPT !.symbols = res.symbols, !.errors = res.errors,
              !.ok = IF res.ok THEN @ ELSE FALSE]

\* s[p] is the dot; kind tells which directive name follows it.
DirectiveBody(kind, s, p, label, r, lineno, used) ==
    LET Extern(ext) ==
            IF ~ext.ok THEN Pass1Error(r, lineno, "expected symbol after .extern", <<>>)
            ELSE SymbolDirective(
                     symbols_define(r.symbols, ext.name, 0, {SYM_EXTERN}, lineno, r.errors), r)
        Entry(ent) ==
            IF ~ent.ok THEN Pass1Error(r, lineno, "expected symbol after .entry", <<>>)
            ELSE SymbolDirective(symbols_mark_entry(r.symbols, ent.name, lineno, r.errors), r)
        Data(res) == DataDirective(res, label, r, lineno, used)
    IN  IF kind = DOT_DATA THEN Data(parse_and_push_data_operands(s, p + 5, r.data))
        ELSE IF kind = DOT_STRING THEN Data(parse_and_push_string(s, p + 7, r.data))
        ELSE IF kind = DOT_MAT THEN Data(parse_and_push_mat(s, p + 4, r.data))
        ELSE IF kind = DOT_EXTERN THEN Extern(parse_symbol_name(s, p + 7, 128))
        ELSE IF kind = DOT_ENTRY THEN Entry(parse_symbol_name(s, p + 6, 128))
        ELSE Pass1Error(r, lineno, "unknown directive", <<>>)

\* label is <<>> for the code's NULL.
handle_directive(s, p, label, r, lineno, used) ==
    DirectiveBody(IF has_prefix(s, p, DOT_DATA) THEN DOT_DATA
                  ELSE IF has_prefix(s, p, DOT_STRING) THEN DOT_STRING
                  ELSE IF has_prefix(s, p, DOT_MAT) THEN DOT_MAT
                  ELSE IF has_prefix(s, p, DOT_EXTERN) THEN DOT_EXTERN
                  ELSE IF has_prefix(s, p, DOT_ENTRY) THEN DOT_ENTRY
                  ELSE <<>>,
                  s, p, label, r, lineno, used)

handle_instruction(s, p, label, r, lineno, used) ==
    LET Returned(r1) == [returned |-> TRUE, r |-> r1]
        Defined(def) ==
            IF ~def.ok
            THEN Returned([r EXCEPT !.symbols = def.symbols, !.errors = def.errors,
                                    !.ok = FALSE])
            ELSE [returned |-> FALSE,
                  r |-> [r EXCEPT !.symbols = def.symbols, !.errors = def.errors]]
        Sized(r1, sz) ==
            IF ~sz.ok THEN Pass1Error(r1, lineno, sz.err, <<>>)
            ELSE [r1 EXCEPT !.code = push_placeholders(@, sz.words), !.ic = @ + sz.words]
        Labelled(l) == IF l.returned THEN l.r ELSE Sized(l.r, encoding_estimate_size(s, p))
    IN  Labelled(IF label = <<>> THEN [returned |-> FALSE, r |-> r]
                 ELSE IF ns_contains(used, label)
                 THEN Returned(Pass1Error(r, lineno, "conflicts with macro name", label))
                 ELSE Defined(symbols_define(r.symbols, label, r.ic, {SYM_CODE},
                                             lineno, r.errors)))

\* line is the buffer after strip_comment_inplace.
handle_line(line, r, lineno, used) ==
    LET Statement(lab, p) ==
            IF At(line, p) \in {NUL, ";"}
            THEN IF lab.label # <<>>
                 THEN Pass1Error(r, lineno, "label without statement", <<>>)
                 ELSE r
            ELSE IF At(line, p) = "."
                 THEN handle_directive(line, p, lab.label, r, lineno, used)
            ELSE handle_instruction(line, p, lab.label, r, lineno, used)
        Labelled(lab) ==
            IF lab.bad THEN Pass1Error(r, lineno, lab.err, lab.name)
            ELSE Statement(lab, ltrim(line, lab.after))
    IN  IF empty_or_comment(line, 1) THEN r
        ELSE Labelled(read_optional_label(line, 1, 128))

\* The end of pass1_run: relocate the DATA symbols, append data after code.
pass1_finalize(r) ==
    [r EXCEPT !.symbols = symbols_relocate_data(@, r.ic),
              !.code = codeimg_relocate_data_after_code(@, r.data)]

(***************************************************************************)
(* Pass 2 (pass2.c).  c is the state pass2_run threads through a line:     *)
(* out (the Pass2Result), errors (the aggregator borrowed from pass 1) and *)
(* ic.  out.tags is a history field, one tag per word of code_final, that  *)
(* records which branch of the encoder pushed the word.                    *)
(***************************************************************************)
pass2_init ==
    [code_final |-> <<>>, tags |-> <<>>, code_len |-> 0, data_len |-> 0,
     ext |-> <<>>, ent |-> <<>>, ok |-> 1]

Tag(kind, name) == [kind |-> kind, name |-> name]

\* codeimg_push_word on code_final, then the instruction counter advances.
EmitWord(c, w, tag) ==
    [c EXCEPT !.out.code_final = codeimg_push_word(@, w),
              !.out.tags = Append(@, tag),
              !.ic = @ + 1]

sym_info_lookup(symbols, name) ==
    LET Info(l) ==
            [found |-> l.found,
             is_extern |-> SYM_EXTERN \in l.sym.attrs,
             defined |-> l.sym.attrs \cap {SYM_CODE, SYM_DATA} # {},
             value |-> l.sym.value]
    IN  Info(symbols_lookup(symbols, name))

\* Variant: the use site recorded after the counter has advanced.
ext_push_after(out, name, addr) ==
    IF out.ok = 0 THEN out
    ELSE [out EXCEPT !.ext = Append(@, [name |-> name, addr |-> addr + 1])]

ext_push(out, name, addr) ==
    IF out.ok = 0 THEN out
    ELSE [out EXCEPT !.ext = Append(@, [name |-> name, addr |-> addr])]

ent_push(out, name, addr) ==
    IF out.ok = 0 THEN out
    ELSE [out EXCEPT !.ent = Append(@, [name |-> name, addr |-> addr])]

line_should_encode(s) ==
    LET Rest(p2) ==
            IF At(s, p2) \in {".", NUL, ";"} THEN [enc |-> FALSE, p |-> 1]
            ELSE [enc |-> TRUE, p |-> p2]
        Label(p, q) ==
            Rest(IF At(s, p) \in (Alpha \cup {"_"}) /\ At(s, q) = ":"
                 THEN skip_ws(s, q + 1) ELSE p)
        Trimmed(p) ==
            IF At(s, p) \in {NUL, ";"} THEN [enc |-> FALSE, p |-> 1]
            ELSE Label(p, ScanWhile(s, p, Alnum \cup {"_"}))
    IN  Trimmed(skip_ws(s, 1))

\* Variant: the signed 8-bit range alone is accepted.
check_fit8_signed(errs, lineno, v, what) ==
    IF v < -128 \/ v > 127
    THEN errors_addf(errs, lineno, "value out of 8-bit range", what, v)
    ELSE errs

check_fit8(errs, lineno, v, what) ==
    IF v < -128 \/ v > 255
    THEN errors_addf(errs, lineno, "value out of 8-bit range", what, v)
    ELSE errs

emit_symbol_operand(name, c, lineno, symbols) ==
    LET Resolved(s) ==
            IF s.found /\ s.is_extern
            THEN EmitWord([c EXCEPT !.out = ext_push(@, name, c.ic)],
                          isa_word_extern, Tag("extern", name))
            ELSE IF s.found /\ s.defined
            THEN EmitWord([c EXCEPT !.errors =
                                   check_fit8(@, lineno, s.value, <<"address">>)],
                          isa_word_reloc(s.value), Tag("local", name))
            ELSE EmitWord([c EXCEPT !.errors =
                                   errors_addf(@, lineno, "undefined symbol", name, 0)],
                          isa_word_extern, Tag("undefined", name))
    IN  Resolved(sym_info_lookup(symbols, name))

\* Variant: a matrix operand emitted without its register-pair word.
EmitOperand_no_pair(c, side, mode, imm, reg, sym, row, col, lineno, symbols) ==
    IF mode = ADR_IMMEDIATE
    THEN EmitWord([c EXCEPT !.errors = check_fit8(@, lineno, imm, <<"immediate">>)],
                  isa_word_imm(imm), Tag("imm", <<>>))
    ELSE IF mode = ADR_REGISTER
    THEN EmitWord(c, IF side = "src" THEN isa_word_reg_src(reg)
                                     ELSE isa_word_reg_dst(reg),
                  Tag("reg", <<>>))
    ELSE IF mode \in {ADR_DIRECT, ADR_MATRIX}
    THEN emit_symbol_operand(sym, c, lineno, symbols)
    ELSE c

\* The extra words of one operand; side is "src" or "dst".
EmitOperand(c, side, mode, imm, reg, sym, row, col, lineno, symbols) ==
    LET Base(d) ==
            IF mode = ADR_MATRIX
            THEN EmitWord(d, isa_word_regs_pair(row, col), Tag("pair", <<>>))
            ELSE d
    IN  IF mode = ADR_IMMEDIATE
        THEN EmitWord([c EXCEPT !.errors = check_fit8(@, lineno, imm, <<"immediate">>)],
                      isa_word_imm(imm), Tag("imm", <<>>))
        ELSE IF mode = ADR_REGISTER
        THEN EmitWord(c, IF side = "src" THEN isa_word_reg_src(reg)
                                         ELSE isa_word_reg_dst(reg),
                      Tag("reg", <<>>))
        ELSE IF mode \in {ADR_DIRECT, ADR_MATRIX}
        THEN Base(emit_symbol_operand(sym, c, lineno, symbols))
        ELSE c

EmitSrc(c, pi, lineno, symbols) ==
    EmitOperand(c, "src", pi.src_mode, pi.src_imm, pi.src_reg, pi.src_sym,
                pi.src_mat_row, pi.src_mat_col, lineno, symbols)

EmitDst(c, pi, lineno, symbols) ==
    EmitOperand(c, "dst", pi.dst_mode, pi.dst_imm, pi.dst_reg, pi.dst_sym,
                pi.dst_mat_row, pi.dst_mat_col, lineno, symbols)

\* Returns the code's return value (ret) and the state after the line.
encode_instruction_into(line, lineno, c, symbols) ==
    LET Dst(pi, d) == IF pi.argc >= 1 THEN EmitDst(d, pi, lineno, symbols) ELSE d
        Src(pi, d) == IF pi.argc = 2 THEN EmitSrc(d, pi, lineno, symbols) ELSE d
        Operands(pi, first) ==
            IF pi.argc = 2 /\ pi.src_mode = ADR_REGISTER /\ pi.dst_mode = ADR_REGISTER
            THEN EmitWord(first, isa_word_regs_pair(pi.src_reg, pi.dst_reg),
                          Tag("pair", <<>>))
            ELSE Dst(pi, Src(pi, first))
        First(pi) ==
            Operands(pi, EmitWord(c, isa_first_word(pi.opcode,
                                                    IF pi.argc = 2 THEN pi.src_mode ELSE -1,
                                                    IF pi.argc >= 1 THEN pi.dst_mode ELSE -1),
                                  Tag("first", <<>>)))
        Parsed(pr) ==
            IF ~pr.ok
            THEN [ret |-> 0,
                  c |-> [c EXCEPT !.errors = errors_addf(@, lineno, pr.err, <<>>, 0),
                                  !.out.ok = 0]]
            ELSE [ret |-> 1, c |-> First(pr.pi)]
        Cursor(lse) ==
            IF ~lse.enc THEN [ret |-> 1, c |-> c]
            ELSE Parsed(encoding_parse_instruction(line, lse.p))
    IN  Cursor(line_should_encode(line))

\* One turn of pass2_run's loop, on the line as fgets returned it.
pass2_line(line, lineno, c, symbols) ==
    LET Encoded(e) == IF e.ret = 0 THEN [e.c EXCEPT !.out.ok = 0] ELSE e.c
    IN  Encoded(encode_instruction_into(strip_comment_inplace(line), lineno, c, symbols))

\* Variant: an extern ENTRY symbol listed like a local one.
ent_collect_cb_any(sym, c) ==
    IF ~SYMBOL_IS_ENTRY(sym) THEN c
    ELSE IF ~SYMBOL_IS_DEFINED(sym) /\ ~SYMBOL_IS_EXTERN(sym)
    THEN [c EXCEPT !.errors =
              errors_addf(@, sym.def_line, "entry symbol is undefined", sym.name, 0)]
    ELSE [c EXCEPT !.out = ent_push(@, sym.name, sym.value)]

ent_collect_cb(sym, c) ==
    IF ~SYMBOL_IS_ENTRY(sym) THEN c
    ELSE IF SYMBOL_IS_EXTERN(sym)
    THEN [c EXCEPT !.errors =
              errors_addf(@, sym.def_line, "entry symbol declared extern", sym.name, 0)]
    ELSE IF ~SYMBOL_IS_DEFINED(sym)
    THEN [c EXCEPT !.errors =
              errors_addf(@, sym.def_line, "entry symbol is undefined", sym.name, 0)]
    ELSE [c EXCEPT !.out = ent_push(@, sym.name, sym.value)]

\* symbols_foreach(s, fn, user) from index k on, in insertion order.
RECURSIVE symbols_foreach(_, _, _)
symbols_foreach(s, k, c) ==
    IF k > Len(s) THEN c ELSE symbols_foreach(s, k + 1, ent_collect_cb(s[k], c))

collect_entries(symbols, c) == symbols_foreach(symbols, 1, c)

\* The end of pass2_run: entries, then the sizes for the writers.
pass2_finalize(c, r) ==
    LET Sizes(d) ==
            [d EXCEPT !.out.code_len = codeimg_size(d.out.code_final),
                      !.out.data_len = r.dc]
    IN  Sizes(collect_entries(r.symbols, c))

pass1_free(r) ==
    [symbols |-> <<>>, code |-> <<>>, data |-> <<>>, ic |-> 0, dc |-> 0,
     errors |-> <<>>, ok |-> FALSE]

pass2_free(out) == [out EXCEPT !.ext = <<>>, !.ent = <<>>, !.ok = 0]

(***************************************************************************)
(* Output writers (output.c): base-4 text in the letters a, b, c, d.       *)
(***************************************************************************)
BASE4_WORD_STRLEN == 5

base4_digit(d) == <<"a", "b", "c", "d">>[(d % 4) + 1]

\* The base-4 digits of v > 0, most significant first.
RECURSIVE B4Digits(_)
B4Digits(v) == IF v = 0 THEN <<>> ELSE Append(B4Digits(v \div 4), base4_digit(v % 4))

b4_write_trim(v) == IF v = 0 THEN <<base4_digit(0)>> ELSE B4Digits(v)

b4_write_pad(v, width, pad_char) ==
    LET digits == B4Digits(v)
        n == Len(digits)
        need == IF width > 0 THEN width ELSE n
        pad == IF need > n THEN need - n ELSE 0
    IN  [k \in 1..need |-> IF k <= pad THEN pad_char ELSE digits[k - pad]]

\* Variant: a word cut to its low 8 bits before printing.
b4_write_word10_low8(w10) == b4_write_pad(w10 % 256, BASE4_WORD_STRLEN, base4_digit(0))

b4_write_word10(w10) == b4_write_pad(w10 % 1024, BASE4_WORD_STRLEN, base4_digit(0))

b4_write_addr(addr) == b4_write_trim(addr)

TextLine(a, b) == a \o <<" ">> \o b \o <<"\n">>

\* The rows written for words[from .. from + n - 1] at addresses addr, addr + 1, ...
ObRows(words, from, n, addr) ==
    [k \in 1..n |-> TextLine(b4_write_addr(addr + k - 1), b4_write_word10(words[from + k - 1]))]

\* Variant: the data rows are written before the code rows.
output_write_ob_data_first(r, out) ==
    <<TextLine(b4_write_trim(out.code_len), b4_write_trim(out.data_len))>>
    \o ObRows(r.code, codeimg_size(r.code) - r.dc + 1, r.dc, r.ic)
    \o ObRows(out.code_final, 1, codeimg_size(out.code_final), IC_INIT)

output_write_ob(r, out) ==
    <<TextLine(b4_write_trim(out.code_len), b4_write_trim(out.data_len))>>
    \o ObRows(out.code_final, 1, codeimg_size(out.code_final), IC_INIT)
    \o ObRows(r.code, codeimg_size(r.code) - r.dc + 1, r.dc, r.ic)

output_write_ent(out) ==
    [k \in 1..Len(out.ent) |-> TextLine(out.ent[k].name, b4_write_addr(out.ent[k].addr))]

\* Variant: one line for each extern name, at its first use-site.
output_write_ext_distinct(out) ==
    LET first == {k \in 1..Len(out.ext) :
                     \A j \in 1..(k - 1) : out.ext[j].name # out.ext[k].name}
    IN  [k \in 1..Cardinality(first) |->
            TextLine(out.ext[CHOOSE i \in first :
                                 Cardinality({j \in first : j < i}) = k - 1].name,
                     b4_write_addr(out.ext[CHOOSE i \in first :
                                 Cardinality({j \in first : j < i}) = k - 1].addr))]

output_write_ext(out) ==
    [k \in 1..Len(out.ext) |-> TextLine(out.ext[k].name, b4_write_addr(out.ext[k].addr))]

NoFile == [exists |-> FALSE, rows |-> <<>>]

File(rows) == [exists |-> TRUE, rows |-> rows]

(***************************************************************************)
(* The name set (nameset.c), the macro table (macro.c) and stage 0         *)
(* (preassembler.c).  st holds the locals of preassemble; st.out is what   *)
(* has been written to the .am file so far, as one stream of characters.   *)
(***************************************************************************)
\* Variant: the name is accepted and not remembered.
\* Variant: the block is used as malloc returned it.
ns_init_keep(block) == block

\* ns_init: memset of the block to zero, the empty set.
ns_init(block) == {}

ns_add_forgetful(used, name) == [ok |-> TRUE, used |-> used]

ns_add(used, name) == [ok |-> name \notin used, used |-> used \cup {name}]

\* The macro table is the sequence of the (name, body) pairs inserted.
macro_lookup(macros, name) ==
    IF \E k \in 1..Len(macros) : macros[k].name = name
    THEN [found |-> TRUE,
          body |-> macros[CHOOSE k \in 1..Len(macros) : macros[k].name = name].body]
    ELSE [found |-> FALSE, body |-> <<>>]

\* The lines fgets reads from a file with the content s: each ends with its
\* newline, but for a last line that has none.
RECURSIVE LineEnd(_, _)
LineEnd(s, i) == IF i >= Len(s) \/ s[i] = "\n" THEN i ELSE LineEnd(s, i + 1)

RECURSIVE FileLines(_)
FileLines(s) ==
    IF s = <<>> THEN <<>>
    ELSE <<SubSeq(s, 1, LineEnd(s, 1))>> \o FileLines(SubSeq(s, LineEnd(s, 1) + 1, Len(s)))

\* Variant: the body is stored with the invocations it holds expanded.
RECURSIVE ExpandLines(_, _)
ExpandLines(macros, lines) ==
    IF lines = <<>> THEN <<>>
    ELSE LET first == Head(lines)
             m == macro_lookup(macros, SubSeq(first, 1, Len(first) - 1))
         IN  (IF m.found THEN m.body ELSE first) \o ExpandLines(macros, Tail(lines))

macro_define_expanding(macros, used, name, body) ==
    LET added == ns_add(used, name)
    IN  IF ~added.ok
        THEN [ok |-> FALSE, macros |-> macros, used |-> used,
              err |-> "identifier already in use"]
        ELSE [ok |-> TRUE,
              macros |-> Append(macros, [name |-> name,
                                         body |-> ExpandLines(macros, FileLines(body))]),
              used |-> added.used, err |-> ""]

macro_define(macros, used, name, body) ==
    LET added == ns_add(used, name)
    IN  IF ~added.ok
        THEN [ok |-> FALSE, macros |-> macros, used |-> used,
              err |-> "identifier already in use"]
        ELSE [ok |-> TRUE, macros |-> Append(macros, [name |-> name, body |-> body]),
              used |-> added.used, err |-> ""]

reserved_words ==
    { <<"m","o","v">>, <<"c","m","p">>, <<"a","d","d">>, <<"s","u","b">>,
      <<"n","o","t">>, <<"c","l","r">>, <<"l","e","a">>, <<"i","n","c">>,
      <<"d","e","c">>, <<"j","m","p">>, <<"b","n","e">>, <<"r","e","d">>,
      <<"p","r","n">>, <<"j","s","r">>, <<"r","t","s">>, <<"s","t","o","p">>,
      <<".","d","a","t","a">>, <<".","s","t","r","i","n","g">>,
      <<".","e","n","t","r","y">>, <<".","e","x","t","e","r","n">> }

is_reserved_word(s) == s \in reserved_words

is_valid_macro_name(s) ==
    /\ At(s, 1) \in Alpha
    /\ Len(s) <= MAX_LABEL_LEN
    /\ \A k \in 1..Len(s) : s[k] \in Alnum \cup {"_"}

MCRO == <<"m","c","r","o">>

MCROEND == <<"m","c","r","o","e","n","d">>

\* The index of the last character of s[1..e] that is not white space.
RECURSIVE TrimEnd(_, _)
TrimEnd(s, e) == IF e >= 1 /\ s[e] \in Space THEN TrimEnd(s, e - 1) ELSE e

\* The index of the first white space or end of string at or after i.
RECURSIVE WordEnd(_, _)
WordEnd(s, i) == IF At(s, i) = NUL \/ At(s, i) \in Space THEN i ELSE WordEnd(s, i + 1)

\* preassemble after fopen and macro_init.
macro_init ==
    [ret |-> "none", am_exists |-> TRUE, err |-> "", error |-> FALSE,
     in_macro |-> FALSE, macro_name |-> <<>>, macro_buf |-> <<>>,
     macros |-> <<>>, out |-> <<>>]

\* One turn of preassemble's fgets loop on the source line raw.
preassemble_line(st, raw, used) ==
    LET buf   == Take(raw, MAX_LINE_LEN + 1)
        start == skip_ws(buf, 1)
        last  == TrimEnd(buf, Len(buf))
        blank == start > Len(buf)
        trim  == IF blank THEN <<>> ELSE SubSeq(buf, start, last)
        \* `*end = '\0'` cuts the buffer itself after the last visible character
        line  == IF blank THEN buf ELSE SubSeq(buf, 1, last)
        Fail(msg) == [st |-> [st EXCEPT !.error = TRUE, !.err = msg], used |-> used]
        Keep(s) == [st |-> s, used |-> used]
        MacroStart ==
            LET p == skip_ws(trim, 5)
                e == WordEnd(trim, p)
                name == SubSeq(trim, p, e - 1)
            IN  IF st.in_macro THEN Fail("nested macro not allowed")
                ELSE IF At(trim, p) = NUL THEN Fail("missing macro name")
                ELSE IF e - p > MAX_LABEL_LEN THEN Fail("macro name too long")
                ELSE IF is_reserved_word(name) \/ ~is_valid_macro_name(name)
                     THEN Fail("illegal macro name")
                ELSE Keep([st EXCEPT !.macro_buf = <<>>, !.in_macro = TRUE,
                                     !.macro_name = name])
        Defined(d) ==
            IF ~d.ok THEN [st |-> [st EXCEPT !.error = TRUE, !.err = d.err], used |-> d.used]
            ELSE [st |-> [st EXCEPT !.macros = d.macros, !.macro_buf = <<>>,
                                    !.in_macro = FALSE],
                  used |-> d.used]
        MacroEnd ==
            IF ~st.in_macro THEN Fail("'mcroend' without 'mcro'")
            ELSE Defined(macro_define(st.macros, used, st.macro_name, st.macro_buf))
        Call(m) ==
            IF m.found THEN Keep([st EXCEPT !.out = @ \o m.body])
            ELSE Keep([st EXCEPT !.out = @ \o line \o
                          (IF line[Len(line)] # "\n" THEN <<"\n">> ELSE <<>>)])
    IN  IF Len(buf) > MAX_LINE_LEN /\ buf[MAX_LINE_LEN + 1] # "\n"
        THEN Fail("line exceeds 80 characters")
        ELSE IF At(trim, 1) \in {NUL, ";"} THEN Keep([st EXCEPT !.out = @ \o line])
        ELSE IF has_prefix(trim, 1, MCRO) /\ At(trim, 5) \in Space THEN MacroStart
        ELSE IF trim = MCROEND THEN MacroEnd
        ELSE IF st.in_macro
             THEN Keep([st EXCEPT !.macro_buf = @ \o trim \o <<"\n">>])
        ELSE Call(macro_lookup(st.macros, trim))

\* Variant: the output is left in place on error.
preassemble_finish_keep(st) ==
    LET unclosed == st.in_macro /\ ~st.error
        error == st.error \/ unclosed
    IN  [st EXCEPT !.error = error,
                   !.err = IF unclosed THEN "unclosed macro" ELSE @,
                   !.macros = <<>>,
                   !.macro_buf = <<>>,
                   !.ret = IF error THEN "false" ELSE "true"]

\* preassemble after the loop: the end-of-file check, the clean-up, the
\* removal of the output on error and the return value.
preassemble_finish(st) ==
    LET unclosed == st.in_macro /\ ~st.error
        error == st.error \/ unclosed
    IN  [st EXCEPT !.error = error,
                   !.err = IF unclosed THEN "unclosed macro" ELSE @,
                   !.macros = <<>>,
                   !.macro_buf = <<>>,
                   !.am_exists = ~error,
                   !.ret = IF error THEN "false" ELSE "true"]

(***************************************************************************)
(* The driver, assemble_file (assembler.c), as a state machine.            *)
(***************************************************************************)
VARIABLES
    am,            \* the .am file: a sequence of lines
    pc,            \* where the driver stands
    lineno,        \* lines read so far by the running pass
    p1,            \* the driver's Pass1Result, as it reads now
    p1_state,      \* "live", or after pass1_free: "stale" or "zeroed"
    pass1_out,     \* what pass1_run handed back (history)
    p2,            \* the driver's Pass2Result
    pass2_ret,     \* pass2_run's return value
    ic,            \* pass2_run's instruction counter
    g_used_names,  \* the shared identifier set
    files,         \* the .ob, .ext and .ent files on disk
    ret,           \* assemble_file's return value: "none", "true", "false"
    est,           \* the last result of encoding_estimate_size
    sym_call,      \* the last call made on the symbol table
    as_file,       \* the .as source file: a sequence of lines
    pre,           \* preassemble's return value and whether the .am file exists
    input          \* the input drawn for one operation (history)

vars == <<am, pc, lineno, p1, p1_state, pass1_out, p2, pass2_ret, ic,
          g_used_names, files, ret, est, sym_call, as_file, pre, input>>

MaxLines == 3

RECURSIVE Concat(_)
Concat(parts) == IF parts = <<>> THEN <<>> ELSE Head(parts) \o Concat(Tail(parts))

SP == <<" ">>

NL == <<"\n">>

COMMA == <<",", " ">>

MatOperand(name) == name \o <<"[", "r", "1", "]", "[", "r", "2", "]">>

Mnemonic(opcode) == OPS[opcode + 1].name

\* The lines a .am file is drawn from.
AmLines ==
    << Concat(<<<<"X", ":">>, SP, DOT_DATA, SP, <<"5">>, NL>>),
       Concat(<<DOT_DATA, SP, <<"7">>, COMMA, <<"-", "8">>, NL>>),
       Concat(<<<<"L", ":">>, SP, Mnemonic(1), SP, <<"E">>, COMMA, MatOperand(<<"L">>), NL>>),
       Concat(<<DOT_EXTERN, SP, <<"E">>, NL>>),
       Concat(<<DOT_ENTRY, SP, <<"X">>, NL>>),
       Concat(<<DOT_ENTRY, SP, <<"L">>, NL>>),
       Concat(<<DOT_ENTRY, SP, <<"E">>, NL>>),
       Concat(<<Mnemonic(0), SP, <<"#", "3">>, COMMA, <<"r", "2">>, NL>>),
       Concat(<<Mnemonic(9), SP, <<"E">>, NL>>),
       Concat(<<Mnemonic(9), SP, <<"X">>, NL>>),
       Concat(<<Mnemonic(9), SP, <<"U">>, NL>>),
       Concat(<<Mnemonic(15), NL>>),
       Concat(<<Mnemonic(0), SP, <<"r", "1">>, NL>>) >>

Programs == UNION {[1..n -> {AmLines[k] : k \in 1..Len(AmLines)}] : n \in 0..MaxLines}

Idle == [op |-> "none"]

\* preassemble has not been called.
NotRun == [macro_init EXCEPT !.am_exists = FALSE]

NoSize == SizeFail("")

\* assemble_file has expanded the macros and enters pass1_run.
Init ==
    /\ am \in Programs
    /\ pc = "pass1"
    /\ lineno = 0
    /\ p1 = init_result
    /\ p1_state = "live"
    /\ pass1_out = init_result
    /\ p2 = pass2_init
    /\ pass2_ret = 1
    /\ ic = IC_INIT
    /\ g_used_names = {}
    /\ files = [ob |-> NoFile, ext |-> NoFile, ent |-> NoFile]
    /\ ret = "none"
    /\ est = NoSize
    /\ sym_call = Idle
    /\ as_file = <<>>
    /\ pre = NotRun
    /\ input = <<>>

\* pass1_run: one turn of the fgets loop.
Pass1Line ==
    /\ pc = "pass1"
    /\ lineno < Len(am)
    /\ lineno' = lineno + 1
    /\ p1' = handle_line(strip_comment_inplace(am[lineno + 1]), p1, lineno + 1, g_used_names)
    /\ UNCHANGED <<as_file, pre, input, am, pc, p1_state, pass1_out, p2, pass2_ret, ic, g_used_names,
                   files, ret, est, sym_call>>

\* pass1_run: end of file, the finalisation and the return.
Pass1Finish ==
    /\ pc = "pass1"
    /\ lineno = Len(am)
    /\ p1' = pass1_finalize(p1)
    /\ pass1_out' = p1'
    /\ pc' = "pass1_done"
    /\ UNCHANGED <<as_file, pre, input, am, lineno, p1_state, p2, pass2_ret, ic, g_used_names,
                   files, ret, est, sym_call>>

\* assemble_file: pass 1 did not end ok: free and goto error.
Pass1Failed ==
    /\ pc = "pass1_done"
    /\ ~p1.ok
    /\ p1' = pass1_free(p1)
    /\ p1_state' = "zeroed"
    /\ pc' = "error"
    /\ UNCHANGED <<as_file, pre, input, am, lineno, pass1_out, p2, pass2_ret, ic, g_used_names,
                   files, ret, est, sym_call>>

\* assemble_file: pass 1 ended ok: pass1_free(&p1) closes the block, and
\* pass2_run is entered with &p1.  What pass 2 then reads through that
\* pointer is either the content pass 1 left (stale) or pass1_free's zeros.
Pass1Release ==
    /\ pc = "pass1_done"
    /\ p1.ok
    /\ \E s \in {"stale", "zeroed"} :
          /\ p1_state' = s
          /\ p1' = IF s = "stale" THEN p1 ELSE pass1_free(p1)
    /\ p2' = pass2_init
    /\ ic' = IC_INIT
    /\ lineno' = 0
    /\ pc' = "pass2"
    /\ UNCHANGED <<as_file, pre, input, am, pass1_out, pass2_ret, g_used_names, files, ret, est, sym_call>>

Pass2Ctx == [out |-> p2, errors |-> p1.errors, ic |-> ic]

\* The line makes emit_symbol_operand look a name up.
LooksUp(c, d) ==
    \E k \in (Len(c.out.tags) + 1)..Len(d.out.tags) :
        d.out.tags[k].kind \in {"undefined", "extern", "local"}

\* pass2_run: one turn of the fgets loop, d being the state after the line.
\* A lookup in a zeroed Pass1Result dereferences its NULL symbol table.
Pass2Step(d) ==
    IF p1_state = "zeroed" /\ LooksUp(Pass2Ctx, d)
    THEN /\ pc' = "crashed"
         /\ UNCHANGED <<as_file, pre, input, p2, p1, ic>>
    ELSE /\ p2' = d.out
         /\ p1' = [p1 EXCEPT !.errors = d.errors]
         /\ ic' = d.ic
         /\ pc' = pc

Pass2Line ==
    /\ pc = "pass2"
    /\ lineno < Len(am)
    /\ Pass2Step(pass2_line(am[lineno + 1], lineno + 1, Pass2Ctx, p1.symbols))
    /\ lineno' = lineno + 1
    /\ UNCHANGED <<as_file, pre, input, am, p1_state, pass1_out, pass2_ret, g_used_names, files, ret,
                   est, sym_call>>

\* pass2_run: end of file, d being the state after the entries and the sizes.
Pass2Return(d) ==
    /\ p2' = d.out
    /\ p1' = [p1 EXCEPT !.errors = d.errors]
    /\ pass2_ret' = d.out.ok

Pass2Finish ==
    /\ pc = "pass2"
    /\ lineno = Len(am)
    /\ Pass2Return(pass2_finalize(Pass2Ctx, p1))
    /\ pc' = "pass2_done"
    /\ UNCHANGED <<as_file, pre, input, am, lineno, p1_state, pass1_out, ic, g_used_names, files, ret,
                   est, sym_call>>

Pass2Bad == pass2_ret = 0 \/ p2.ok = 0 \/ errors_count(p1.errors) > 0

\* assemble_file: the failure branch after pass2_run.  It prints and frees,
\* and control then runs on into the writers.
Pass2Failed ==
    /\ pc = "pass2_done"
    /\ Pass2Bad
    /\ p2' = pass2_free(p2)
    /\ pc' = "write_ob"
    /\ UNCHANGED <<as_file, pre, input, am, lineno, p1, p1_state, pass1_out, pass2_ret, ic, g_used_names,
                   files, ret, est, sym_call>>

Pass2Succeeded ==
    /\ pc = "pass2_done"
    /\ ~Pass2Bad
    /\ pc' = "write_ob"
    /\ UNCHANGED <<as_file, pre, input, am, lineno, p1, p1_state, pass1_out, p2, pass2_ret, ic,
                   g_used_names, files, ret, est, sym_call>>

WriteOb ==
    /\ pc = "write_ob"
    /\ files' = [files EXCEPT !.ob = File(output_write_ob(p1, p2))]
    /\ pc' = "write_ext"
    /\ UNCHANGED <<as_file, pre, input, am, lineno, p1, p1_state, pass1_out, p2, pass2_ret, ic,
                   g_used_names, ret, est, sym_call>>

WriteExt ==
    /\ pc = "write_ext"
    /\ Len(p2.ext) > 0
    /\ files' = [files EXCEPT !.ext = File(output_write_ext(p2))]
    /\ pc' = "write_ent"
    /\ UNCHANGED <<as_file, pre, input, am, lineno, p1, p1_state, pass1_out, p2, pass2_ret, ic,
                   g_used_names, ret, est, sym_call>>

SkipExt ==
    /\ pc = "write_ext"
    /\ Len(p2.ext) = 0
    /\ pc' = "write_ent"
    /\ UNCHANGED <<as_file, pre, input, am, lineno, p1, p1_state, pass1_out, p2, pass2_ret, ic,
                   g_used_names, files, ret, est, sym_call>>

WriteEnt ==
    /\ pc = "write_ent"
    /\ Len(p2.ent) > 0
    /\ files' = [files EXCEPT !.ent = File(output_write_ent(p2))]
    /\ pc' = "free2"
    /\ UNCHANGED <<as_file, pre, input, am, lineno, p1, p1_state, pass1_out, p2, pass2_ret, ic,
                   g_used_names, ret, est, sym_call>>

SkipEnt ==
    /\ pc = "write_ent"
    /\ Len(p2.ent) = 0
    /\ pc' = "free2"
    /\ UNCHANGED <<as_file, pre, input, am, lineno, p1, p1_state, pass1_out, p2, pass2_ret, ic,
                   g_used_names, files, ret, est, sym_call>>

\* pass2_free(&p2); goto success.
Success ==
    /\ pc = "free2"
    /\ p2' = pass2_free(p2)
    /\ g_used_names' = {}
    /\ ret' = "true"
    /\ pc' = "done"
    /\ UNCHANGED <<as_file, pre, input, am, lineno, p1, p1_state, pass1_out, pass2_ret, ic, files,
                   est, sym_call>>

\* The error label.
Error ==
    /\ pc = "error"
    /\ g_used_names' = {}
    /\ ret' = "false"
    /\ pc' = "done"
    /\ UNCHANGED <<as_file, pre, input, am, lineno, p1, p1_state, pass1_out, p2, pass2_ret, ic, files,
                   est, sym_call>>

(***************************************************************************)
(* The symbol table under any sequence of calls (symbols.c), with the      *)
(* arguments pass 1 passes, followed by pass 2's entry collection.         *)
(***************************************************************************)
MaxCalls == 4

SymNames == {<<"A">>, <<"B">>}

SymValues == {0, IC_START}

DefineAttrs == {{SYM_CODE}, {SYM_DATA}, {SYM_EXTERN}}

InitSym ==
    /\ am = <<>>
    /\ pc = "symbols"
    /\ lineno = 0
    /\ p1 = init_result
    /\ p1_state = "live"
    /\ pass1_out = init_result
    /\ p2 = pass2_init
    /\ pass2_ret = 1
    /\ ic = IC_INIT
    /\ g_used_names = {}
    /\ files = [ob |-> NoFile, ext |-> NoFile, ent |-> NoFile]
    /\ ret = "none"
    /\ est = NoSize
    /\ sym_call = Idle
    /\ as_file = <<>>
    /\ pre = NotRun
    /\ input = <<>>

\* res is what the call returned: the table and the aggregator after it.
SymReturn(op, name, value, attrs, res) ==
    /\ p1' = [p1 EXCEPT !.symbols = res.symbols, !.errors = res.errors]
    /\ sym_call' = [op |-> op, name |-> name, value |-> value, attrs |-> attrs,
                    line |-> lineno + 1, ok |-> res.ok]
    /\ lineno' = lineno + 1
    /\ UNCHANGED <<as_file, pre, input, am, pc, p1_state, pass1_out, p2, pass2_ret, ic, g_used_names,
                   files, ret, est>>

Define ==
    /\ pc = "symbols"
    /\ lineno < MaxCalls
    /\ \E name \in SymNames, value \in SymValues, attrs \in DefineAttrs :
          SymReturn("define", name, value, attrs,
                    symbols_define(p1.symbols, name, value, attrs, lineno + 1, p1.errors))

MarkEntry ==
    /\ pc = "symbols"
    /\ lineno < MaxCalls
    /\ \E name \in SymNames :
          SymReturn("mark_entry", name, 0, {},
                    symbols_mark_entry(p1.symbols, name, lineno + 1, p1.errors))

\* The end of pass1_run on the table as it stands.
Relocate ==
    /\ pc = "symbols"
    /\ p1' = pass1_finalize(p1)
    /\ pass1_out' = p1'
    /\ pc' = "relocated"
    /\ UNCHANGED <<as_file, pre, input, am, lineno, p1_state, p2, pass2_ret, ic, g_used_names, files,
                   ret, est, sym_call>>

\* The end of pass2_run on the relocated table.
Collect ==
    /\ pc = "relocated"
    /\ Pass2Return(pass2_finalize(Pass2Ctx, p1))
    /\ pc' = "collected"
    /\ UNCHANGED <<as_file, pre, input, am, lineno, p1_state, pass1_out, ic, g_used_names, files, ret,
                   est, sym_call>>

NextSym == Define \/ MarkEntry \/ Relocate \/ Collect

SpecSym == InitSym /\ [][NextSym]_vars

(***************************************************************************)
(* One instruction line through both passes: the size pass 1 computes for  *)
(* it and the words pass 2 emits for it.                                   *)
(***************************************************************************)
\* A name longer than the 31-character symbol buffers of ParsedInstr.
LongName == [k \in 1..(MAX_LABEL_LEN + 2) |-> "N"]

OperandTexts ==
    { <<"#", "3">>, <<"#", "-", "1">>, <<"#">>, <<"r", "3">>, <<"r", "9">>,
      <<"X">>, <<"E">>, <<"U">>, LongName,
      MatOperand(<<"X">>), MatOperand(<<"E">>), <<"X", "[", "r", "1", "]">>,
      <<"#", "+", "5">>, <<"#", "3", "x">>, <<"r", "8">>,
      <<"X", "[", "r", "1", "]", "[", "r", "8", "]">>,
      MatOperand(<<"X">>) \o <<"x">>,
      <<"X", " ", "[", "r", "1", "]", "[", "r", "2", "]">>,
      <<"X", "[", "r", "1", "]", " ", "[", "r", "2", "]">>,
      <<"X", "[", " ", "r", "1", " ", "]", "[", "r", "2", "]">>,
      <<"#", " ", "3">>, <<"3">>, <<"#", "9", "9", "9">> }

OperandLists ==
    {<<>>}
    \cup {SP \o a : a \in OperandTexts}
    \cup {SP \o a \o COMMA \o b : a \in OperandTexts, b \in OperandTexts}
    \cup {SP \o <<"r", "1">> \o SP \o <<"r", "2">>,
          SP \o <<"r", "1">> \o COMMA,
          COMMA \o <<"r", "1">>,
          SP \o <<"r", "1">> \o COMMA \o <<"r", "2">> \o COMMA \o <<"r", "3">>}

InstrLines ==
    {lab \o Mnemonic(opcode) \o ops \o NL :
        lab \in {<<>>, <<"L", ":", " ">>}, opcode \in 0..15, ops \in OperandLists}

\* The table pass 1 leaves for a file that defines L and X and declares E.
InstrSymbols ==
    << Symbol(<<"L">>, IC_START, {SYM_CODE}, 1),
       Symbol(<<"X">>, IC_START + 5, {SYM_DATA, SYM_ENTRY}, 2),
       Symbol(<<"E">>, 0, {SYM_EXTERN}, 3) >>

InitInstr ==
    /\ am \in {<<line>> : line \in InstrLines}
    /\ pc = "estimate"
    /\ lineno = 0
    /\ p1 = [init_result EXCEPT !.symbols = InstrSymbols]
    /\ p1_state = "live"
    /\ pass1_out = init_result
    /\ p2 = pass2_init
    /\ pass2_ret = 1
    /\ ic = IC_INIT
    /\ g_used_names = {}
    /\ files = [ob |-> NoFile, ext |-> NoFile, ent |-> NoFile]
    /\ ret = "none"
    /\ est = NoSize
    /\ sym_call = Idle
    /\ as_file = <<>>
    /\ pre = NotRun
    /\ input = <<>>

\* The text handle_line hands to handle_instruction: after the label.
InstrStart(line, lab) == IF lab.bad THEN 1 ELSE ltrim(line, lab.after)

\* Pass 1 on the line: strip_comment_inplace, the label, encoding_estimate_size.
EstimateLine(line) ==
    encoding_estimate_size(line, InstrStart(line, read_optional_label(line, 1, 128)))

Estimate ==
    /\ pc = "estimate"
    /\ est' = EstimateLine(strip_comment_inplace(am[1]))
    /\ pc' = "encode"
    /\ UNCHANGED <<as_file, pre, input, am, lineno, p1, p1_state, pass1_out, p2, pass2_ret, ic,
                   g_used_names, files, ret, sym_call>>

\* Pass 2 on the same line: strip_comment_inplace, encode_instruction_into.
EncodeReturn(d) ==
    /\ p2' = d.out
    /\ p1' = [p1 EXCEPT !.errors = d.errors]
    /\ ic' = d.ic

Encode ==
    /\ pc = "encode"
    /\ EncodeReturn(pass2_line(am[1], 1, Pass2Ctx, p1.symbols))
    /\ pc' = "encoded"
    /\ lineno' = 1
    /\ UNCHANGED <<as_file, pre, input, am, p1_state, pass1_out, pass2_ret, g_used_names, files, ret,
                   est, sym_call>>

NextInstr == Estimate \/ Encode

SpecInstr == InitInstr /\ [][NextInstr]_vars

(***************************************************************************)
(* Register-to-register instructions, and stop, through both passes.       *)
(***************************************************************************)
Registers == 0..7

RegisterText(n) == <<"r", DigitChars[n + 1]>>

RegLine(opcode, rs, rd) ==
    Mnemonic(opcode) \o SP \o RegisterText(rs) \o COMMA \o RegisterText(rd) \o NL

InitRegs ==
    /\ input \in {[opcode |-> o, src |-> rs, dst |-> rd] :
                     o \in {k \in 0..15 : OPS[k + 1].argc = 2},
                     rs \in Registers, rd \in Registers}
                 \cup {[opcode |-> 15, src |-> 0, dst |-> 0]}
    /\ am = <<IF input.opcode = 15 THEN Mnemonic(15) \o NL
              ELSE RegLine(input.opcode, input.src, input.dst)>>
    /\ pc = "estimate"
    /\ lineno = 0
    /\ p1 = init_result
    /\ p1_state = "live"
    /\ pass1_out = init_result
    /\ p2 = pass2_init
    /\ pass2_ret = 1
    /\ ic = IC_INIT
    /\ g_used_names = {}
    /\ files = [ob |-> NoFile, ext |-> NoFile, ent |-> NoFile]
    /\ ret = "none"
    /\ est = NoSize
    /\ sym_call = Idle
    /\ as_file = <<>>
    /\ pre = NotRun

SpecRegs == InitRegs /\ [][NextInstr]_vars

(***************************************************************************)
(* One .data line through pass 1 and into the object file, the Pass1Result *)
(* being alive when output_write_ob reads it.                              *)
(***************************************************************************)
MaxList == 3

DataValues == {0, 7, -1, 255, 256, -128}

DataSeps == {<<",">>, <<",", " ">>, <<" ", ",", "\t">>}

DataLists == UNION {[1..n -> DataValues] : n \in 1..MaxList}

\* The decimal digits of n >= 0, as printf writes them.
RECURSIVE DecDigits(_)
DecDigits(n) ==
    IF n < 10 THEN <<DigitChars[n + 1]>>
    ELSE Append(DecDigits(n \div 10), DigitChars[(n % 10) + 1])

DecimalText(v) == IF v < 0 THEN <<"-">> \o DecDigits(0 - v) ELSE DecDigits(v)

RECURSIVE ListText(_, _)
ListText(L, sep) ==
    IF Len(L) = 1 THEN DecimalText(L[1])
    ELSE DecimalText(L[1]) \o sep \o ListText(Tail(L), sep)

DataLine(L, sep) == DOT_DATA \o SP \o ListText(L, sep) \o NL

InitData ==
    /\ input \in {[list |-> L, sep |-> sep] : L \in DataLists, sep \in DataSeps}
    /\ am = <<DataLine(input.list, input.sep)>>
    /\ pc = "pass1"
    /\ lineno = 0
    /\ p1 = init_result
    /\ p1_state = "live"
    /\ pass1_out = init_result
    /\ p2 = pass2_init
    /\ pass2_ret = 1
    /\ ic = IC_INIT
    /\ g_used_names = {}
    /\ files = [ob |-> NoFile, ext |-> NoFile, ent |-> NoFile]
    /\ ret = "none"
    /\ est = NoSize
    /\ sym_call = Idle
    /\ as_file = <<>>
    /\ pre = NotRun

\* output_write_ob on the live Pass1Result and the Pass2Result d.out.
WriteObOf(d) ==
    /\ p2' = d.out
    /\ files' = [files EXCEPT !.ob = File(output_write_ob(p1, d.out))]

\* pass2_run over a file without instructions, then the .ob writer.
WriteObLive ==
    /\ pc = "pass1_done"
    /\ p1.ok
    /\ WriteObOf(pass2_finalize(Pass2Ctx, p1))
    /\ pc' = "written"
    /\ UNCHANGED <<as_file, pre, input, am, lineno, p1, p1_state, pass1_out, pass2_ret,
                   ic, g_used_names, ret, est, sym_call>>

NextData == Pass1Line \/ Pass1Finish \/ WriteObLive

SpecData == InitData /\ [][NextData]_vars

(***************************************************************************)
(* Pass 1 over .am files of data directives, well formed and malformed.    *)
(***************************************************************************)
MaxDirLines == 3

QuotedAB == <<"\"", "a", "b", "\"">>

QuotedColon == <<"\"", "a", ":", "b", "\"">>

DirLines ==
    { DataLine(<<7, 8>>, <<",", " ">>),
      Concat(<<DOT_DATA, SP, <<"7", ",", " ", "x">>, NL>>),
      DOT_DATA \o NL,
      TextLine(DOT_STRING, QuotedAB),
      TextLine(DOT_STRING, QuotedColon),
      TextLine(DOT_STRING, <<"\"", "a", "b">>),
      Concat(<<DOT_STRING, SP, QuotedAB, SP, <<"x">>, NL>>),
      Concat(<<DOT_MAT, SP, <<"[", "1", "]", "[", "2", "]">>, SP, <<"4">>, NL>>),
      Concat(<<DOT_MAT, SP, <<"[", "1", "]", "[", "2", "]">>, SP, <<"4", ",", "5", ",", "6">>, NL>>),
      Concat(<<<<"Y", ":">>, SP, DOT_DATA, SP, <<"5">>, NL>>),
      Mnemonic(15) \o NL }

InitDir ==
    /\ am \in UNION {[1..n -> DirLines] : n \in 0..MaxDirLines}
    /\ input = <<>>
    /\ pc = "pass1"
    /\ lineno = 0
    /\ p1 = init_result
    /\ p1_state = "live"
    /\ pass1_out = init_result
    /\ p2 = pass2_init
    /\ pass2_ret = 1
    /\ ic = IC_INIT
    /\ g_used_names = {}
    /\ files = [ob |-> NoFile, ext |-> NoFile, ent |-> NoFile]
    /\ ret = "none"
    /\ est = NoSize
    /\ sym_call = Idle
    /\ as_file = <<>>
    /\ pre = NotRun

SpecDir == InitDir /\ [][NextData]_vars

(***************************************************************************)
(* Stage 0: preassemble (preassembler.c) reading the lines of as_file.     *)
(***************************************************************************)
PreReturn(r) ==
    /\ pre' = r.st
    /\ g_used_names' = r.used
    /\ lineno' = lineno + 1

\* preassemble: one turn of the fgets loop.
PreLine ==
    /\ pc = "pre"
    /\ ~pre.error
    /\ lineno < Len(as_file)
    /\ PreReturn(preassemble_line(pre, as_file[lineno + 1], g_used_names))
    /\ UNCHANGED <<as_file, input, am, pc, p1, p1_state, pass1_out, p2, pass2_ret, ic,
                   files, ret, est, sym_call>>

PreClose(st) ==
    /\ pre' = st
    /\ am' = IF st.am_exists THEN FileLines(st.out) ELSE <<>>

\* preassemble: a break or the end of the file, then the clean-up and the
\* return.
PreFinish ==
    /\ pc = "pre"
    /\ pre.error \/ lineno = Len(as_file)
    /\ PreClose(preassemble_finish(pre))
    /\ pc' = "pre_done"
    /\ UNCHANGED <<as_file, input, lineno, p1, p1_state, pass1_out, p2, pass2_ret, ic,
                   g_used_names, files, ret, est, sym_call>>

\* The state in which assemble_file has opened the files and preassemble
\* starts to read the source src.
InitPreassemble(src, in) ==
    /\ as_file = src
    /\ am = <<>>
    /\ pc = "pre"
    /\ pre = macro_init
    /\ lineno = 0
    /\ p1 = init_result
    /\ p1_state = "live"
    /\ pass1_out = init_result
    /\ p2 = pass2_init
    /\ pass2_ret = 1
    /\ ic = IC_INIT
    /\ g_used_names = {}
    /\ files = [ob |-> NoFile, ext |-> NoFile, ent |-> NoFile]
    /\ ret = "none"
    /\ est = NoSize
    /\ sym_call = Idle
    /\ input = in

MaxPreLines == 4

NameM == <<"m">>

LineOf(text) == text \o NL

LongLine == [k \in 1..(MAX_LINE_LEN + 2) |-> IF k = MAX_LINE_LEN + 2 THEN "\n" ELSE "x"]

\* Source lines: a definition start, its end, an invocation, a comment, a
\* statement with white space around it, a blank line, and the lines that
\* are errors wherever they stand.
PreLines ==
    { TextLine(MCRO, NameM),
      LineOf(MCROEND),
      LineOf(NameM),
      LineOf(<<";", "c">>),
      <<"\t">> \o Mnemonic(15) \o <<" ">> \o NL,
      NL,
      TextLine(MCRO, Mnemonic(0)),
      TextLine(MCRO, <<"1", "x">>),
      TextLine(MCRO, LongName),
      LongLine }

SourceFiles == UNION {[1..n -> PreLines] : n \in 0..MaxPreLines}

InitPre == \E src \in SourceFiles : InitPreassemble(src, <<>>)

NextPre == PreLine \/ PreFinish

SpecPre == InitPre /\ [][NextPre]_vars

(***************************************************************************)
(* Stage 0 on files that define the macros n and m, in this order, and     *)
(* then invoke them.                                                       *)
(***************************************************************************)
MaxBody == 2

NameN == <<"n">>

BodyLines == {LineOf(NameM), LineOf(NameN), LineOf(Mnemonic(15))}

Bodies == UNION {[1..k -> BodyLines] : k \in 0..MaxBody}

Definition(name, body) == <<TextLine(MCRO, name)>> \o body \o <<LineOf(MCROEND)>>

InitMacro ==
    \E bn \in Bodies, bm \in Bodies, calls \in [1..1 -> BodyLines] \cup [1..2 -> BodyLines] :
        InitPreassemble(Definition(NameN, bn) \o Definition(NameM, bm) \o calls,
                        [n |-> bn, m |-> bm, calls |-> calls])

SpecMacro == InitMacro /\ [][NextPre]_vars

(***************************************************************************)
(* One instruction with an immediate operand through both passes:          *)
(* `prn #v` (destination) and `mov #v, r2` (source).                       *)
(***************************************************************************)
MaxImm == 300

ImmText(v) == <<"#">> \o DecimalText(v)

InitImm ==
    /\ input \in {[v |-> v, form |-> f] : v \in (0 - MaxImm)..MaxImm, f \in {"prn", "mov"}}
    /\ am = <<IF input.form = "prn"
              THEN TextLine(Mnemonic(12), ImmText(input.v))
              ELSE Mnemonic(0) \o SP \o ImmText(input.v) \o COMMA \o RegisterText(2) \o NL>>
    /\ pc = "estimate"
    /\ lineno = 0
    /\ p1 = init_result
    /\ p1_state = "live"
    /\ pass1_out = init_result
    /\ p2 = pass2_init
    /\ pass2_ret = 1
    /\ ic = IC_INIT
    /\ g_used_names = {}
    /\ files = [ob |-> NoFile, ext |-> NoFile, ent |-> NoFile]
    /\ ret = "none"
    /\ est = NoSize
    /\ sym_call = Idle
    /\ as_file = <<>>
    /\ pre = NotRun

SpecImm == InitImm /\ [][NextInstr]_vars

(***************************************************************************)
(* The driver on .am files whose data image is large: a matrix of 156      *)
(* words, so that code and data together pass address 255.                 *)
(***************************************************************************)
MaxCapLines == 3

CapLines ==
    { Concat(<<DOT_MAT, SP, <<"[", "1", "3", "]", "[", "1", "2", "]">>, NL>>),
      Concat(<<<<"X", ":">>, SP, DOT_DATA, SP, <<"5">>, NL>>),
      TextLine(Mnemonic(9), <<"X">>),
      LineOf(Mnemonic(15)) }

InitCap ==
    /\ am \in UNION {[1..n -> CapLines] : n \in 0..MaxCapLines}
    /\ pc = "pass1"
    /\ lineno = 0
    /\ p1 = init_result
    /\ p1_state = "live"
    /\ pass1_out = init_result
    /\ p2 = pass2_init
    /\ pass2_ret = 1
    /\ ic = IC_INIT
    /\ g_used_names = {}
    /\ files = [ob |-> NoFile, ext |-> NoFile, ent |-> NoFile]
    /\ ret = "none"
    /\ est = NoSize
    /\ sym_call = Idle
    /\ as_file = <<>>
    /\ pre = NotRun
    /\ input = <<>>

NextCap ==
    \/ Pass1Line \/ Pass1Finish \/ Pass1Failed \/ Pass1Release
    \/ Pass2Line \/ Pass2Finish \/ Pass2Failed \/ Pass2Succeeded
    \/ WriteOb \/ SkipExt \/ SkipEnt \/ Success \/ Error

SpecCap == InitCap /\ [][NextCap]_vars

(***************************************************************************)
(* assemble_file from the source file on: stage 0, then the two passes     *)
(* and the writers.                                                        *)
(***************************************************************************)
\* `if (!preassemble(as_path, am_path)) goto error;`
PreFailed ==
    /\ pc = "pre_done"
    /\ pre.ret = "false"
    /\ pc' = "error"
    /\ UNCHANGED <<as_file, pre, input, am, lineno, p1, p1_state, pass1_out, p2, pass2_ret, ic,
                   g_used_names, files, ret, est, sym_call>>

\* preassemble returned true: pass1_run opens the .am file.
PreOk ==
    /\ pc = "pre_done"
    /\ pre.ret = "true"
    /\ lineno' = 0
    /\ pc' = "pass1"
    /\ UNCHANGED <<as_file, pre, input, am, p1, p1_state, pass1_out, p2, pass2_ret, ic,
                   g_used_names, files, ret, est, sym_call>>

MaxSrcLines == 2

NameHello == <<"h","e","l","l","o">>

LabelStart == <<"S","T","A","R","T",":">>

LabelM == NameM \o <<":">>

\* mcro m / inc r1 / mcroend
DefM == Definition(NameM, <<TextLine(Mnemonic(7), RegisterText(1))>>)

\* mcro hello / mov r1, r2 / add r3, r4 / mcroend
DefHello ==
    Definition(NameHello, <<RegLine(0, 1, 2), RegLine(2, 3, 4)>>)

Preludes == {<<>>, DefM, DefHello, DefM \o DefM, <<TextLine(MCRO, NameM)>>}

SrcLines ==
    { LineOf(NameM),
      TextLine(LabelM, Mnemonic(15)),
      Concat(<<LabelM, SP, DOT_DATA, SP, <<"5">>, NL>>),
      Concat(<<LabelM, SP, DOT_STRING, SP, <<"\"", "a", "\"">>, NL>>),
      Concat(<<LabelM, SP, DOT_MAT, SP, <<"[", "1", "]", "[", "1", "]">>, SP, <<"1">>, NL>>),
      TextLine(DOT_EXTERN, <<"E">>),
      TextLine(Mnemonic(9), <<"E">>),
      TextLine(Mnemonic(9), <<"U">>),
      TextLine(Mnemonic(0), RegisterText(1)),
      TextLine(DOT_ENTRY, <<"X">>),
      Concat(<<<<"X", ":">>, SP, DOT_DATA, SP, <<"5">>, NL>>),
      LineOf(Mnemonic(15)),
      TextLine(LabelStart, NameHello),
      LineOf(NameHello) }

Sources ==
    {prelude \o body : prelude \in Preludes,
                       body \in UNION {[1..n -> SrcLines] : n \in 0..MaxSrcLines}}

InitFile == \E src \in Sources : InitPreassemble(src, <<>>)

Next ==
    \/ Pass1Line \/ Pass1Finish \/ Pass1Failed \/ Pass1Release
    \/ Pass2Line \/ Pass2Finish \/ Pass2Failed \/ Pass2Succeeded
    \/ WriteOb \/ WriteExt \/ SkipExt \/ WriteEnt \/ SkipEnt
    \/ Success \/ Error

Spec == Init /\ [][Next]_vars

(***************************************************************************)
(* The two passes alone, on .am files with and without lines in error.     *)
(* The passes are sequential code: a step that is enabled is taken.        *)
(***************************************************************************)
MaxErrLines == 3

ErrLines == {AmLines[13], AmLines[12], AmLines[11], AmLines[1], AmLines[10]}

InitPasses ==
    /\ am \in UNION {[1..n -> ErrLines] : n \in 0..MaxErrLines}
    /\ input = <<>>
    /\ pc = "pass1"
    /\ lineno = 0
    /\ p1 = init_result
    /\ p1_state = "live"
    /\ pass1_out = init_result
    /\ p2 = pass2_init
    /\ pass2_ret = 1
    /\ ic = IC_INIT
    /\ g_used_names = {}
    /\ files = [ob |-> NoFile, ext |-> NoFile, ent |-> NoFile]
    /\ ret = "none"
    /\ est = NoSize
    /\ sym_call = Idle
    /\ as_file = <<>>
    /\ pre = NotRun

NextPasses ==
    \/ Pass1Line \/ Pass1Finish \/ Pass1Failed \/ Pass1Release
    \/ Pass2Line \/ Pass2Finish

\* fgets returned a line: the body of the while loop runs.
ReadLine == pc \in {"pass1", "pass2"} /\ lineno < Len(am) /\ lineno' = lineno + 1

\* fgets returned NULL: the code after the loop runs and the pass returns.
EndOfFile ==
    /\ pc \in {"pass1", "pass2"}
    /\ lineno = Len(am)
    /\ pc' = IF pc = "pass1" THEN "pass1_done" ELSE "pass2_done"

SpecPasses ==
    InitPasses /\ [][NextPasses]_vars /\ WF_lineno(ReadLine) /\ WF_pc(EndOfFile)

(***************************************************************************)
(* A data label of n characters, defined on line 1 and used on line 2 as   *)
(* a direct operand (`jmp`) or as a matrix operand (`mov ...[r1][r2], r3`).*)
(***************************************************************************)
MaxName == 33

NameOfLen(n) == [k \in 1..n |-> "N"]

InitLabel ==
    /\ input \in {[n |-> n, form |-> f] : n \in 1..MaxName, f \in {"direct", "matrix"}}
    /\ am = << Concat(<<NameOfLen(input.n), <<":">>, SP, DOT_DATA, SP, <<"5">>, NL>>),
               IF input.form = "direct"
               THEN TextLine(Mnemonic(9), NameOfLen(input.n))
               ELSE Concat(<<Mnemonic(0), SP, MatOperand(NameOfLen(input.n)), COMMA,
                             RegisterText(3), NL>>) >>
    /\ pc = "pass1"
    /\ lineno = 0
    /\ p1 = init_result
    /\ p1_state = "live"
    /\ pass1_out = init_result
    /\ p2 = pass2_init
    /\ pass2_ret = 1
    /\ ic = IC_INIT
    /\ g_used_names = {}
    /\ files = [ob |-> NoFile, ext |-> NoFile, ent |-> NoFile]
    /\ ret = "none"
    /\ est = NoSize
    /\ sym_call = Idle
    /\ as_file = <<>>
    /\ pre = NotRun

SpecLabel == InitLabel /\ [][NextPasses]_vars

NextFile == PreLine \/ PreFinish \/ PreFailed \/ PreOk \/ Next

SpecFile == InitFile /\ [][NextFile]_vars

(***************************************************************************)
(* main's loop over two command-line files: assemble_file on input.a, then *)
(* assemble_file on input.b in the same process.                           *)
(***************************************************************************)
MaxSecond == 1

FirstFiles ==
    { <<>>,
      DefM,
      DefHello,
      DefM \o <<TextLine(LabelStart, Mnemonic(15))>>,
      <<Concat(<<LabelM, SP, DOT_DATA, SP, <<"5">>, NL>>), TextLine(LabelStart, Mnemonic(15))>>,
      <<TextLine(DOT_EXTERN, <<"E">>), TextLine(Mnemonic(9), <<"E">>)>>,
      <<TextLine(DOT_ENTRY, <<"X">>), Concat(<<<<"X", ":">>, SP, DOT_DATA, SP, <<"5">>, NL>>)>>,
      DefM \o DefM }

SecondFiles ==
    {prelude \o body : prelude \in {<<>>, DefM, DefHello},
                       body \in UNION {[1..n -> SrcLines] : n \in 0..MaxSecond}}

InitTwo ==
    \E a \in FirstFiles, b \in SecondFiles :
        InitPreassemble(a, [a |-> a, b |-> b, call |-> 1])

\* assemble_file returned and main calls it on the next file: the name set
\* is a new malloc block, whose content is whatever the heap held there,
\* passed through ns_init.
NextCall ==
    /\ pc = "done"
    /\ input.call = 1
    /\ input' = [input EXCEPT !.call = 2]
    /\ as_file' = input.b
    /\ \E block \in SUBSET {NameM, NameHello} : g_used_names' = ns_init(block)
    /\ am' = <<>>
    /\ pc' = "pre"
    /\ pre' = macro_init
    /\ lineno' = 0
    /\ p1' = init_result
    /\ p1_state' = "live"
    /\ pass1_out' = init_result
    /\ p2' = pass2_init
    /\ pass2_ret' = 1
    /\ ic' = IC_INIT
    /\ files' = [ob |-> NoFile, ext |-> NoFile, ent |-> NoFile]
    /\ UNCHANGED <<ret, est, sym_call>>

NextTwo == NextCall \/ NextFile

SpecTwo == InitTwo /\ [][NextTwo]_vars

(***************************************************************************)
(* Properties                                                              *)
(***************************************************************************)
NoFiles == ~files.ob.exists /\ ~files.ext.exists /\ ~files.ent.exists

\* C1: if pass 2 reports failure or at least one error is recorded in the
\* aggregator by the end of pass 2, none of the .ob, .ent and .ext files is
\* written: the writers run only after a pass 2 that succeeded with zero
\* recorded errors.
C1_ArtifactGating ==
    (pass2_ret = 0 \/ errors_count(p1.errors) > 0) => NoFiles

\* A run whose pass 2 recorded an error and which has reached the writers.
C1_FailedPass2AtWriters ==
    pc = "write_ob" /\ pass1_out.ok /\ errors_count(p1.errors) > 0

\* C2: for every instruction line that encoding_estimate_size accepts with
\* size n, encoding_parse_instruction accepts the line too and encoding it
\* pushes exactly n words and advances IC by exactly n, whether the symbols
\* it names are local, extern or undefined.
C2_SizeEmitParity ==
    (pc = "encoded" /\ est.ok) =>
        /\ p2.ok = 1
        /\ Len(p2.code_final) = est.words
        /\ ic = IC_INIT + est.words

\* A five-word instruction (two matrix operands), one base symbol extern.
C2_FiveWordsEncoded ==
    pc = "encoded" /\ est.ok /\ est.words = 5 /\ Len(p2.ext) = 1

AfterPass2 == {"pass2_done", "write_ob", "write_ext", "write_ent", "free2", "done"}

\* C3: after a pass 1 that reported ok, the code_len pass 2 produces equals
\* ICF - IC_START, the number of placeholder words pass 1 reserved.
C3_CodeLenMatchesPass1 ==
    (pc \in AfterPass2 /\ pass1_out.ok) =>
        /\ p2.code_len = pass1_out.ic - IC_START
        /\ p2.code_len = Len(pass1_out.code) - pass1_out.dc

\* A complete run over several instructions, a matrix operand among them.
C3_SeveralInstructionsDone ==
    /\ pc = "done" /\ ret = "true" /\ pass1_out.ok
    /\ p2.code_len >= 7
    /\ \E k \in 1..Len(p2.tags) : p2.tags[k].kind = "pair"

\* C4: for every record (name, addr) of the extern-use list, the word at
\* offset addr - IC_START of the final code image is the extern word emitted
\* for that name, and addr is the value IC had just before the word was
\* pushed, for source and destination operands alike.
C4_ExternAddressExact ==
    /\ pc = "pass2" => ic = IC_INIT + Len(p2.code_final)
    /\ \A k \in 1..Len(p2.ext) :
          LET at == p2.ext[k].addr - IC_START + 1
          IN  /\ at \in 1..Len(p2.code_final)
              /\ p2.code_final[at] = isa_word_extern
              /\ p2.tags[at] = Tag("extern", p2.ext[k].name)

\* An extern used as the source of one instruction and the target of another.
C4_ExternSourceAndTarget ==
    /\ pc = "pass2_done"
    /\ Len(p2.ext) = 2
    /\ p2.ext[1].addr = IC_START + 1
    /\ p2.ext[2].addr = IC_START + 5

\* C5: in the final code image the first word of an instruction and every
\* immediate, register and register-pair word carry ARE = A, every word that
\* resolves a local symbol carries ARE = R, and every extern word carries
\* ARE = E with a zero payload.
C5_AREIntegrity ==
    \A k \in 1..Len(p2.code_final) :
        /\ p2.tags[k].kind \in {"first", "imm", "reg", "pair"}
              => p2.code_final[k] % 4 = ARE_A
        /\ p2.tags[k].kind = "local" => p2.code_final[k] % 4 = ARE_R
        /\ p2.tags[k].kind = "extern"
              => p2.code_final[k] % 4 = ARE_E /\ p2.code_final[k] \div 4 = 0

\* An image holding a word of each of the six kinds.
C5_AllWordKinds ==
    /\ pc = "pass2_done"
    /\ {"first", "imm", "reg", "pair", "local", "extern"}
          \subseteq {p2.tags[k].kind : k \in 1..Len(p2.tags)}

\* The step of a symbol over one line of pass 1: a symbol that becomes DATA takes
\* the DC the line started with, a symbol that is DATA keeps its value.
C6_Defined(before, dc, k) ==
    LET b == p1'.symbols[k]
    IN  IF k <= Len(before)
        THEN /\ (SYM_DATA \in b.attrs /\ SYM_DATA \notin before[k].attrs) => b.value = dc
             /\ SYM_DATA \in before[k].attrs => b.value = before[k].value
        ELSE SYM_DATA \in b.attrs => b.value = dc

C6_Step ==
    /\ (pc = "pass1" /\ pc' = "pass1")
          => \A k \in 1..Len(p1'.symbols) : C6_Defined(p1.symbols, p1.dc, k)
    /\ (pc = "pass1" /\ pc' = "pass1_done")
          => /\ Len(p1'.symbols) = Len(p1.symbols)
             /\ \A k \in 1..Len(p1.symbols) :
                   /\ p1'.symbols[k].name = p1.symbols[k].name
                   /\ p1'.symbols[k].attrs = p1.symbols[k].attrs
                   /\ p1'.symbols[k].value =
                         IF SYM_DATA \in p1.symbols[k].attrs
                         THEN p1.symbols[k].value + p1.ic
                         ELSE p1.symbols[k].value
    /\ pc # "pass1" => (p1'.symbols = p1.symbols \/ p1' = pass1_free(p1))

\* C6: after pass 1 every DATA symbol's value is the DC at the moment its
\* label was defined plus ICF, CODE and EXTERN values are left as they were,
\* and the relocation is applied once, also to a data label that .entry
\* announced before its definition.
C6_DataRelocation == [][C6_Step]_vars

\* A data label announced by .entry on line 1 and defined on line 3, two
\* data words into the image, after relocation.
C6_EntryFirstDataRelocated ==
    /\ pc = "pass1_done"
    /\ Len(p1.symbols) >= 1
    /\ p1.symbols[1].attrs = {SYM_ENTRY, SYM_DATA}
    /\ p1.symbols[1].def_line = 3
    /\ p1.symbols[1].value = p1.ic + 2

\* C7: after any sequence of symbols_define and symbols_mark_entry calls, no
\* symbol carries both EXTERN and ENTRY, also when .entry X comes first and
\* .extern X later.
C7_NoExternEntry ==
    \A k \in 1..Len(p1.symbols) : ~({SYM_EXTERN, SYM_ENTRY} \subseteq p1.symbols[k].attrs)

\* An .entry request for a name not yet in the table has been recorded.
C7_EntryPlaceholder ==
    /\ pc = "symbols"
    /\ \E k \in 1..Len(p1.symbols) : p1.symbols[k].attrs = {SYM_ENTRY}

SymAttrs(s, name) ==
    IF symbols_find_idx(s, name) >= 1 THEN s[symbols_find_idx(s, name)].attrs ELSE {}

C8_Step ==
    /\ \A k \in 1..Len(p1'.symbols) :
          ~(SYM_EXTERN \in p1'.symbols[k].attrs
            /\ p1'.symbols[k].attrs \cap {SYM_CODE, SYM_DATA} # {})
    /\ \A name \in SymNames :
          /\ SYM_EXTERN \in SymAttrs(p1.symbols, name)
                => SymAttrs(p1'.symbols, name) \cap {SYM_CODE, SYM_DATA} = {}
          /\ SymAttrs(p1.symbols, name) \cap {SYM_CODE, SYM_DATA} # {}
                => SYM_EXTERN \notin SymAttrs(p1'.symbols, name)

\* C8: no symbol carries EXTERN together with CODE or DATA: a name declared
\* extern never becomes locally defined, a locally defined name never
\* becomes extern.
C8_ExternExcludesDefinition == [][C8_Step]_vars

\* A definition of a name declared extern has just been rejected.
C8_DefinitionOverExternRejected ==
    /\ sym_call.op = "define" /\ ~sym_call.ok
    /\ sym_call.attrs \cap {SYM_CODE, SYM_DATA} # {}
    /\ SYM_EXTERN \in SymAttrs(p1.symbols, sym_call.name)

C9_Failed(old, e) ==
    /\ p1'.symbols = p1.symbols
    /\ p1'.errors = Append(p1.errors, e)
    /\ e.line = sym_call'.line
    /\ e.name = sym_call'.name
    /\ e.ref = old.def_line
    /\ e.msg = IF SYM_EXTERN \in old.attrs THEN "cannot define external symbol"
               ELSE "duplicate label"

C9_Step ==
    (lineno' = lineno + 1 /\ sym_call'.op = "define" /\ ~sym_call'.ok)
        => /\ Len(p1'.errors) = Len(p1.errors) + 1
           /\ symbols_lookup(p1.symbols, sym_call'.name).found
           /\ C9_Failed(symbols_lookup(p1.symbols, sym_call'.name).sym,
                        p1'.errors[Len(p1'.errors)])

\* C9: a symbols_define call that fails leaves the table as it was (the
\* existing record keeps its value, attributes and definition line) and
\* adds exactly one error: 'cannot define external symbol' for an extern
\* record, 'duplicate label' citing the earlier definition line otherwise.
C9_FailedDefineLeavesTable == [][C9_Step]_vars

\* A second definition with another value and kind has just been rejected.
C9_DuplicateRejected ==
    /\ sym_call.op = "define" /\ ~sym_call.ok
    /\ symbols_lookup(p1.symbols, sym_call.name).found
    /\ SYM_EXTERN \notin SymAttrs(p1.symbols, sym_call.name)
    /\ symbols_lookup(p1.symbols, sym_call.name).sym.value # sym_call.value
    /\ sym_call.attrs # SymAttrs(p1.symbols, sym_call.name) \ {SYM_ENTRY}

IsListedEntry(sym) ==
    SYM_ENTRY \in sym.attrs /\ sym.attrs \cap {SYM_CODE, SYM_DATA} # {}
    /\ SYM_EXTERN \notin sym.attrs

IsRefusedEntry(sym) ==
    SYM_ENTRY \in sym.attrs
    /\ (sym.attrs \cap {SYM_CODE, SYM_DATA} = {} \/ SYM_EXTERN \in sym.attrs)

NamesOf(rows) == [k \in 1..Len(rows) |-> rows[k].name]

C10_Step ==
    (pc = "relocated" /\ pc' = "collected")
        => /\ NamesOf(p2'.ent) = NamesOf(SelectSeq(p1.symbols, IsListedEntry))
           /\ \A k \in 1..Len(p2'.ent) :
                 p2'.ent[k].addr = symbols_lookup(p1.symbols, p2'.ent[k].name).sym.value
           /\ Len(p1'.errors) >= Len(p1.errors)
           /\ SubSeq(p1'.errors, 1, Len(p1.errors)) = p1.errors
           /\ NamesOf(SubSeq(p1'.errors, Len(p1.errors) + 1, Len(p1'.errors)))
                 = NamesOf(SelectSeq(p1.symbols, IsRefusedEntry))

\* C10: at the end of pass 2 the entries list holds exactly the symbols that
\* are ENTRY, locally defined and not EXTERN, in insertion order, each with
\* its final address; every ENTRY symbol that is undefined or extern yields
\* an error and no row.
C10_EntriesExact == [][C10_Step]_vars

\* Two entries listed in insertion order though the first symbol was the
\* last to be marked, a relocated data symbol among them.
C10_TwoEntriesListed ==
    /\ pc = "collected"
    /\ Len(p2.ent) = 2
    /\ p2.ent[1].name = p1.symbols[1].name
    /\ p2.ent[2].name = p1.symbols[2].name
    /\ sym_call.op = "mark_entry" /\ sym_call.name = p1.symbols[1].name
    /\ \E k \in 1..Len(p1.symbols) :
          SYM_DATA \in p1.symbols[k].attrs /\ p1.symbols[k].value > IC_START

\* The number a row of the object file shows for its word: the five
\* characters before the newline, read as base-4 digits a, b, c, d.
B4Value(c) == CHOOSE d \in 0..3 : base4_digit(d) = c

RECURSIVE B4Read(_)
B4Read(s) == IF s = <<>> THEN 0 ELSE 4 * B4Read(SubSeq(s, 1, Len(s) - 1)) + B4Value(s[Len(s)])

RowWord(row) == SubSeq(row, Len(row) - BASE4_WORD_STRLEN, Len(row) - 1)

\* The words of L are in the data image and in the rows of the object
\* file, each reduced modulo m.
DataReadBack(L, m) ==
    /\ pc \in {"pass1_done", "written"}
          => /\ p1.dc = Len(L)
             /\ p1.data = [k \in 1..Len(L) |-> L[k] % m]
    /\ pc = "written"
          => /\ Len(files.ob.rows) = 1 + Len(L)
             /\ \A k \in 1..Len(L) : B4Read(RowWord(files.ob.rows[1 + k])) = L[k] % m

RegRegWords(opcode, rs, rd) == <<opcode * 64 + 3 * 16 + 3 * 4, rs * 64 + rd * 4>>

\* Sizing returned 2 and pass 2 emitted exactly the two words, for the
\* opcodes of the set ops.
RegRegPacked(ops) ==
    input.opcode \in ops =>
        /\ pc \in {"encode", "encoded"} => est.ok /\ est.words = 2
        /\ pc = "encoded"
              => /\ p2.ok = 1 /\ errors_count(p1.errors) = 0
                 /\ p2.code_final = RegRegWords(input.opcode, input.src, input.dst)
                 /\ ic = IC_INIT + 2

\* stop is the single word 0x3C0.
StopWord == (input.opcode = 15 /\ pc = "encoded") => p2.code_final = <<960>>

\* C12 as stated: for every two-operand opcode (mov, cmp, add, sub, lea)
\* with registers rS and rD as source and destination, sizing returns 2 and
\* pass 2 emits exactly the first word and the packed register word; stop
\* is the single word 0x3C0.
C12_RegRegEveryTwoOperandOpcode == RegRegPacked({0, 1, 2, 3, 4}) /\ StopWord

\* C12 amended: the same for every two-operand opcode that admits a
\* register on both sides (mov, cmp, add, sub); lea, whose source must be a
\* label, is rejected by sizing and by pass 2, which emits no word for it.
C12_RegRegPacking ==
    /\ RegRegPacked({0, 1, 2, 3})
    /\ StopWord
    /\ input.opcode = 4 =>
          /\ pc \in {"encode", "encoded"} => ~est.ok
          /\ pc = "encoded" => p2.ok = 0 /\ p2.code_final = <<>>

\* `mov r3, r5` has been encoded as 0x03C, 0x0D4.
C12_MovR3R5Encoded ==
    /\ pc = "encoded"
    /\ input = [opcode |-> 0, src |-> 3, dst |-> 5]
    /\ p2.code_final = <<60, 212>>

\* The errors of the preprocessor.
ListedErrors ==
    {"line exceeds 80 characters", "nested macro not allowed", "'mcroend' without 'mcro'",
     "illegal macro name", "macro name too long", "identifier already in use",
     "unclosed macro"}

\* preassemble has returned failure and there is no .am file.
PreFailedClean == pre.ret = "false" /\ ~pre.am_exists /\ am = <<>>

IsPrefix(s, f) == Len(s) <= Len(f) /\ SubSeq(f, 1, Len(s)) = s

\* Source files that hold one of the listed errors, told from their text:
\* an over-long first line, a first line `mcroend`, a first line `mcro`
\* with a reserved, an illegal or a too long name, `mcro` twice in a row,
\* a second definition of m, or a last line that opens a macro.
HoldsListedError(f) ==
    \/ /\ f # <<>>
       /\ \/ f[1] \in {LongLine, LineOf(MCROEND), TextLine(MCRO, Mnemonic(0)),
                       TextLine(MCRO, <<"1", "x">>), TextLine(MCRO, LongName)}
          \/ f[Len(f)] = TextLine(MCRO, NameM)
    \/ IsPrefix(<<TextLine(MCRO, NameM), TextLine(MCRO, NameM)>>, f)
    \/ IsPrefix(<<TextLine(MCRO, NameM), LineOf(MCROEND),
                  TextLine(MCRO, NameM), LineOf(MCROEND)>>, f)

\* C13: whenever the preprocessor meets an error (over-long line, nested
\* mcro, mcroend outside a macro, illegal, too long or reserved name, name
\* already in use, end of input inside a macro), preassemble returns
\* failure and the .am file does not exist afterwards.
C13_FailureRemovesOutput ==
    pc = "pre_done" =>
        /\ pre.err \in ListedErrors => PreFailedClean
        /\ pre.error <=> pre.err \in ListedErrors
        /\ HoldsListedError(as_file) => pre.error /\ PreFailedClean
        /\ pre.ret = "true" <=> pre.am_exists

\* An error met after a statement had been written to the output.
C13_ErrorAfterOutput ==
    /\ pc = "pre_done"
    /\ pre.err = "'mcroend' without 'mcro'"
    /\ pre.out # <<>>
    /\ PreFailedClean

\* The lines a source line of the input stands for in the .am file when
\* bodies are substituted literally.
LiteralLines(line) ==
    IF line = LineOf(NameM) THEN input.m
    ELSE IF line = LineOf(NameN) THEN input.n
    ELSE <<line>>

Trimmed(line) ==
    IF skip_ws(line, 1) > Len(line) THEN <<>>
    ELSE SubSeq(line, skip_ws(line, 1), TrimEnd(line, Len(line)))

IsDefinitionLine(line) ==
    \/ Trimmed(line) = MCROEND
    \/ has_prefix(Trimmed(line), 1, MCRO) /\ At(Trimmed(line), 5) \in Space

\* Line k of f stands outside every macro definition: as many definitions
\* have been closed before it as have been opened.
OutsideDefinition(f, k) ==
    /\ ~IsDefinitionLine(f[k])
    /\ Cardinality({j \in 1..(k - 1) : f[j] = TextLine(MCRO, NameM)})
           = Cardinality({j \in 1..(k - 1) : f[j] = LineOf(MCROEND)})

\* The lines of f outside a definition that are comments, blank lines or
\* statements, trimmed, in source order.
RECURSIVE OwnLines(_, _)
OwnLines(f, k) ==
    IF k > Len(f) THEN <<>>
    ELSE (IF OutsideDefinition(f, k) /\ f[k] # LineOf(NameM)
          THEN <<Trimmed(f[k])>> ELSE <<>>) \o OwnLines(f, k + 1)

RECURSIVE IsSubsequence(_, _)
IsSubsequence(s, f) ==
    IF s = <<>> THEN TRUE
    ELSE IF f = <<>> THEN FALSE
    ELSE IF Head(s) = Head(f) THEN IsSubsequence(Tail(s), Tail(f))
    ELSE IsSubsequence(s, Tail(f))

\* C15: in the .am file of a source that is accepted, each source line
\* outside a macro definition that is not an invocation is a line of its
\* own, in source order (a comment never merges with the statement after
\* it), and no mcro or mcroend line appears.
C15_LinesOfTheirOwn ==
    (pc = "pre_done" /\ pre.ret = "true") =>
        /\ IsSubsequence(OwnLines(as_file, 1), [k \in 1..Len(am) |-> Trimmed(am[k])])
        /\ \A k \in 1..Len(am) : ~IsDefinitionLine(am[k])

\* The source `;c` / `stop` has been accepted, and the .am file is the one
\* line `;c` followed at once by the statement.
C15_CommentSwallowsStatement ==
    /\ pc = "pre_done"
    /\ pre.ret = "true"
    /\ as_file = <<LineOf(<<";", "c">>), <<"\t">> \o Mnemonic(15) \o <<" ">> \o NL>>
    /\ am = << <<";", "c", "\t">> \o Mnemonic(15) \o NL >>

\* Scenario F: the macro hello, then `START: hello` and `stop`.
ScenarioF == DefHello \o <<TextLine(LabelStart, NameHello), LineOf(Mnemonic(15))>>

\* C16: for Scenario F the invocation after the label is expanded to the
\* stored body (the .am file is the START: line with the two instructions
\* of the body, then stop), the file assembles without error, and pass 2
\* produces exactly 5 code words at addresses 100..104.
C16_LabelledInvocation ==
    as_file = ScenarioF =>
        /\ pc # "pre" =>
              /\ pre.ret = "true"
              /\ \A k \in 1..Len(am) : am[k] # TextLine(LabelStart, NameHello)
              /\ Len(am) >= 3
              /\ SubSeq(am, Len(am) - 1, Len(am)) = <<RegLine(2, 3, 4), LineOf(Mnemonic(15))>>
        /\ pc \notin {"pre", "pre_done", "pass1"} => pass1_out.ok
        /\ pc = "pass2_done" =>
              /\ p2.ok = 1
              /\ Len(p2.code_final) = 5
              /\ ic = IC_START + 5
        /\ pc = "done" => ret = "true"

\* Scenario F has been rejected: the .am file holds the line `START: hello`
\* as it stood in the source, pass 1 reported it, and assemble_file
\* returned false without a pass 2.
C16_InvocationLeftUnexpanded ==
    /\ as_file = ScenarioF
    /\ pc = "done"
    /\ ret = "false"
    /\ am = <<TextLine(LabelStart, NameHello), LineOf(Mnemonic(15))>>
    /\ ~pass1_out.ok
    /\ p2 = pass2_init

\* The source is the definition of m followed by lines none of which
\* opens a further definition.
DefinesMOnce == IsPrefix(DefM, as_file) /\ ~IsPrefix(DefM \o DefM, as_file)

\* The lines of the source after the definition of m that carry the label
\* m: in front of an instruction or of .data, .string or .mat.
LabelledM == {k \in (Len(DefM) + 1)..Len(as_file) : has_prefix(as_file[k], 1, LabelM)}

Pass1Returned == pc \notin {"pre", "pre_done", "pass1"}

\* C17: a second definition of a macro name fails the preprocessor with
\* 'identifier already in use'; a label on an instruction or on a .data,
\* .string or .mat line that equals a macro name makes pass 1 record an
\* error and return not ok; no result that is ok holds a symbol named as a
\* macro.
C17_SharedNamespace ==
    /\ (IsPrefix(DefM \o DefM, as_file) /\ pc # "pre")
           => pre.ret = "false" /\ pre.err = "identifier already in use"
    /\ (DefinesMOnce /\ LabelledM # {} /\ Pass1Returned)
           => /\ ~pass1_out.ok
              /\ \A k \in LabelledM :
                    \E e \in 1..Len(pass1_out.errors) :
                        /\ pass1_out.errors[e].msg = "conflicts with macro name"
                        /\ pass1_out.errors[e].name = NameM
                        /\ pass1_out.errors[e].line = k - Len(DefM)
    /\ (Pass1Returned /\ pc # "done" /\ pass1_out.ok)
           => \A s \in 1..Len(pass1_out.symbols) :
                  pass1_out.symbols[s].name \notin g_used_names

\* m is a macro and `m: .data 5` is the second line after its definition:
\* pass 1 has reported line 2 and assemble_file has returned false.
C17_LabelNamedAsMacro ==
    /\ as_file = DefM \o <<LineOf(Mnemonic(15)),
                           Concat(<<LabelM, SP, DOT_DATA, SP, <<"5">>, NL>>)>>
    /\ pc = "done"
    /\ ret = "false"
    /\ pass1_out.errors = <<[line |-> 2, msg |-> "conflicts with macro name",
                             name |-> NameM, ref |-> 0]>>

\* pass2_run returned failure or left an error in the aggregator.
Pass2Unsuccessful == pass2_ret = 0 \/ errors_count(p1.errors) > 0

\* C18: pass 1 runs only after the preprocessor succeeded, pass 2 only
\* after pass 1 returned ok, the writers only after pass 2 succeeded; once
\* a stage has failed no later stage runs and assemble_file returns false.
C18_StageOrdering ==
    /\ pc \in {"pass1", "pass1_done"} => pre.ret = "true"
    /\ pc \in {"pass2", "pass2_done"} => pre.ret = "true" /\ pass1_out.ok
    /\ pc \in {"write_ob", "write_ext", "write_ent", "free2"}
           => pre.ret = "true" /\ pass1_out.ok /\ ~Pass2Unsuccessful
    /\ pc = "done"
           => (ret = "false"
                  <=> (pre.ret = "false" \/ ~pass1_out.ok \/ Pass2Unsuccessful))

\* Pass 2 left an error in the aggregator, the writers ran all the same,
\* and assemble_file has returned true.
C18_TrueAfterFailedPass2 ==
    /\ pc = "done"
    /\ ret = "true"
    /\ pre.ret = "true"
    /\ errors_count(p1.errors) > 0
    /\ files.ob.exists

\* C19: the result of pass 1 stays alive until pass 2 and the writers have
\* finished: pass 2, which borrows its aggregator and symbol table, and the
\* .ob writer never read a pass-1 result that has been freed.
C19_Pass1ResultAlive ==
    pc \in {"pass2", "pass2_done", "write_ob"} => p1_state = "live"

\* The .ob file has been written from a freed pass-1 result: pass 1 had
\* pushed data words, and the file holds the header and the code rows only.
C19_ObWrittenFromFreedResult ==
    /\ pc = "done"
    /\ ret = "true"
    /\ p1_state = "zeroed"
    /\ pass1_out.dc > 0
    /\ files.ob.exists
    /\ Len(files.ob.rows) = 1 + p2.code_len

B4Letters == {"a", "b", "c", "d"}

\* s is the base-4 text of v without leading zero digits.
IsTrimmedB4(s, v) ==
    /\ Len(s) >= 1
    /\ \A k \in 1..Len(s) : s[k] \in B4Letters
    /\ IF v = 0 THEN s = <<"a">> ELSE s[1] # "a"
    /\ B4Read(s) = v

\* row is `<address> <word>` and a newline: the address trimmed, the word
\* five letters that spell the low 10 bits of w.
IsObRow(row, addr, w) ==
    /\ Len(row) >= BASE4_WORD_STRLEN + 3
    /\ row[Len(row)] = "\n"
    /\ row[Len(row) - BASE4_WORD_STRLEN - 1] = " "
    /\ IsTrimmedB4(SubSeq(row, 1, Len(row) - BASE4_WORD_STRLEN - 2), addr)
    /\ \A k \in 1..BASE4_WORD_STRLEN : RowWord(row)[k] \in B4Letters
    /\ B4Read(RowWord(row)) = w % 1024

IsObHeader(row, code_len, data_len) ==
    /\ row[Len(row)] = "\n"
    /\ \E i \in 2..(Len(row) - 2) :
          /\ row[i] = " "
          /\ IsTrimmedB4(SubSeq(row, 1, i - 1), code_len)
          /\ IsTrimmedB4(SubSeq(row, i + 1, Len(row) - 1), data_len)

\* C20: the .ob file is one header line with code_len and data_len in
\* trimmed base 4, then code_len rows for the final code words at the
\* addresses from IC_START on, then data_len rows for the data words in
\* the order pass 1 pushed them, at the addresses from IC_START + code_len
\* on; every word is five letters of a..d that spell its low 10 bits.
C20_ObjectFileLayout ==
    files.ob.exists =>
        /\ Len(files.ob.rows) = 1 + p2.code_len + p2.data_len
        /\ IsObHeader(files.ob.rows[1], p2.code_len, p2.data_len)
        /\ \A k \in 1..p2.code_len :
              IsObRow(files.ob.rows[1 + k], IC_START + k - 1, p2.code_final[k])
        /\ \A k \in 1..p2.data_len :
              IsObRow(files.ob.rows[1 + p2.code_len + k], IC_START + p2.code_len + k - 1,
                      pass1_out.data[k])

\* An object file with code rows and data rows, the word of `.data -8`
\* among them.
C20_CodeAndDataRows ==
    /\ files.ob.exists
    /\ p2.code_len >= 2
    /\ p2.data_len >= 2
    /\ \E k \in 1..p2.data_len : pass1_out.data[k] = 1016

\* The writers have run after a pass 2 that succeeded without any error.
FullSuccessWritten == pc = "free2" /\ pass1_out.ok /\ ~Pass2Bad

\* The lines of the .am file that use E as an operand: `jmp E` and
\* `L: cmp E, L[r1][r2]`.
UsesOfE == {k \in 1..Len(am) : am[k] \in {AmLines[3], AmLines[9]}}

\* C21: after a full success the .ob file exists, the .ent file exists
\* exactly when the entries list is not empty, the .ext file exactly when
\* the list of extern use-sites is not empty, and the .ext file has one
\* line for each use-site: an extern used k times appears k times.
C21_ConditionalSideFiles ==
    FullSuccessWritten =>
        /\ files.ob.exists
        /\ files.ent.exists <=> Len(p2.ent) > 0
        /\ files.ext.exists <=> Len(p2.ext) > 0
        /\ Len(files.ent.rows) = Len(p2.ent)
        /\ Len(files.ext.rows) = Cardinality(UsesOfE)
        /\ \A k \in 1..Len(files.ext.rows) : has_prefix(files.ext.rows[k], 1, <<"E", " ">>)

\* E is extern and is used on two lines: the .ext file has two lines, and
\* there is no .ent file.
C21_ExternUsedTwice ==
    /\ FullSuccessWritten
    /\ Cardinality(UsesOfE) = 2
    /\ Len(files.ext.rows) = 2
    /\ ~files.ent.exists

\* The first address after the image pass 1 laid out.
ImageEnd == pass1_out.ic + pass1_out.dc

\* C22: for every file that assembles without error the image ends at or
\* below MEMORY_CAPACITY (IC_START + code_len + data_len <= 256); a program
\* whose code and data extend past address 255 is reported as an error and
\* gets no object file, whether or not an instruction refers to a symbol
\* that lies past the limit.
C22_AddressSpaceCap ==
    /\ (pc = "done" /\ ret = "true" /\ errors_count(p1.errors) = 0)
           => ImageEnd <= MEMORY_CAPACITY
    /\ (pc = "done" /\ ImageEnd > MEMORY_CAPACITY)
           => ret = "false" /\ ~files.ob.exists

\* 156 data words and one code word with no reference to any symbol: the
\* image ends at 257, no error was recorded, and the object file holds a
\* row for every word.
C22_ImagePastLimitWritten ==
    /\ pc = "done"
    /\ ret = "true"
    /\ p1_state = "stale"
    /\ ImageEnd = MEMORY_CAPACITY + 1
    /\ pass1_out.errors = <<>>
    /\ p1.errors = <<>>
    /\ Len(files.ob.rows) = 1 + 157

\* C23: for every immediate value v pass 2 emits exactly one word for the
\* operand, whose bits 9..2 are v modulo 256 and whose ARE bits are A (00);
\* a diagnostic is recorded if and only if v < -128 or v > 255.
C23_ImmediateRange ==
    pc = "encoded" =>
        /\ est.ok /\ est.words = (IF input.form = "prn" THEN 2 ELSE 3)
        /\ Len(p2.code_final) = est.words
        /\ p2.code_final[1] = (IF input.form = "prn" THEN 12 * 64 ELSE 3 * 4)
        /\ p2.code_final[2] \div 4 = input.v % 256
        /\ p2.code_final[2] % 4 = 0
        /\ input.form = "mov" => p2.code_final[3] = 2 * 4
        /\ errors_count(p1.errors) = (IF input.v < -128 \/ input.v > 255 THEN 1 ELSE 0)

\* `prn #200`: accepted without a diagnostic, payload 200.
C23_UnsignedByteSilent ==
    /\ pc = "encoded"
    /\ input = [v |-> 200, form |-> "prn"]
    /\ p2.code_final = <<768, 800>>
    /\ p1.errors = <<>>

\* Stage 0 on a source read alone, from an empty name set: the state and
\* the set after the first k lines, the loop stopping at the first error.
RECURSIVE PreAlone(_, _)
PreAlone(src, k) ==
    IF k = 0 THEN [st |-> macro_init, used |-> {}]
    ELSE LET r == PreAlone(src, k - 1)
         IN  IF r.st.error THEN r ELSE preassemble_line(r.st, src[k], r.used)

\* Pass 1 on the lines of an .am file read alone: the result after k lines.
RECURSIVE Pass1Alone(_, _, _)
Pass1Alone(lines, used, k) ==
    IF k = 0 THEN init_result
    ELSE handle_line(strip_comment_inplace(lines[k]), Pass1Alone(lines, used, k - 1), k, used)

AloneB ==
    LET r  == PreAlone(input.b, Len(input.b))
        st == preassemble_finish(r.st)
        ls == IF st.am_exists THEN FileLines(st.out) ELSE <<>>
    IN  [pre |-> st, used |-> r.used, am |-> ls,
         p1 |-> pass1_finalize(Pass1Alone(ls, r.used, Len(ls)))]

\* C24: the name set is empty when an assemble_file call starts and when it
\* has returned, and the second file of a process goes through stage 0 and
\* pass 1 exactly as it does when assembled alone, with the same return
\* value; no name of the first file yields a collision in the second.
C24_IndependentFiles ==
    /\ pc = "pre" /\ lineno = 0 => g_used_names = {}
    /\ pc = "done" => g_used_names = {}
    /\ input.call = 2 =>
        /\ pc = "pre_done" => pre = AloneB.pre /\ am = AloneB.am /\ g_used_names = AloneB.used
        /\ pc = "pass1_done" => pass1_out = AloneB.p1
        /\ pc = "done" =>
              ret = (IF AloneB.pre.ret = "true" /\ AloneB.p1.ok THEN "true" ELSE "false")

\* The first file defines macro m; the second uses m as a label and is
\* assembled without error.
C24_MacroNameReusedAsLabel ==
    /\ input.call = 2
    /\ input.a = DefM
    /\ input.b = <<TextLine(LabelM, Mnemonic(15))>>
    /\ pc = "done"
    /\ ret = "true"
    /\ pass1_out.ok /\ pass1_out.errors = <<>>

\* C25: pass2_run returns 0, with out->ok == 0, exactly when an error was
\* added to the aggregator during pass 2.  (Pass 2 is entered with an empty
\* aggregator, pass 1 having ended ok.)
C25_Pass2ReportsFailure ==
    pc = "pass2_done" =>
        /\ pass2_ret = 0 <=> errors_count(p1.errors) > 0
        /\ p2.ok = 0 <=> pass2_ret = 0

\* pass2_run has returned 1 after recording `undefined symbol` for U, the
\* pass-1 result reading as pass 1 left it.
C25_UndefinedSymbolReturnsOne ==
    /\ pc = "pass2_done"
    /\ p1_state = "stale"
    /\ pass2_ret = 1
    /\ p2.ok = 1
    /\ \E k \in 1..Len(p1.errors) :
          p1.errors[k].msg = "undefined symbol" /\ p1.errors[k].name = <<"U">>

\* The messages with which the three data parsers reject an operand list.
DataRejections ==
    {"malformed .data list", ".string expects a quoted literal",
     "missing closing quote in .string", "unexpected text after .string",
     "malformed .mat definition"}

NoDirectiveRejected == \A k \in 1..Len(p1.errors) : p1.errors[k].msg \notin DataRejections

\* C26 (as stated): after every line handled by pass 1, rejected directives
\* included, DC equals the number of words in the data image.
C26_DataCounterAlways ==
    pc \in {"pass1", "pass1_done"} => p1.dc = codeimg_size(p1.data)

\* C26 (amended): DC never exceeds the number of words in the data image,
\* and equals it after every line as long as no data directive has been
\* rejected, in particular whenever the pass-1 result is still ok.
C26_DataCounter ==
    pc \in {"pass1", "pass1_done"} =>
        /\ p1.dc <= codeimg_size(p1.data)
        /\ NoDirectiveRejected => p1.dc = codeimg_size(p1.data)
        /\ p1.ok => p1.dc = codeimg_size(p1.data)

\* `.string "ab` is rejected after three words were pushed (a, b and the
\* newline that ends the line); `Y: .data 5` on the next line gets address
\* 0 and its word is the fourth of the image.
C26_WordsLeftByRejectedString ==
    /\ pc = "pass1"
    /\ lineno = 2
    /\ am = <<TextLine(DOT_STRING, <<"\"", "a", "b">>),
              Concat(<<<<"Y", ":">>, SP, DOT_DATA, SP, <<"5">>, NL>>)>>
    /\ p1.dc = 1
    /\ p1.data = <<Ord("a"), Ord("b"), Ord("\n"), 5>>
    /\ \E k \in 1..Len(p1.symbols) : p1.symbols[k].name = <<"Y">> /\ p1.symbols[k].value = 0

\* A source line that is blank or holds only a comment.
BlankOrComment(raw) == At(raw, skip_ws(raw, 1)) \in {NUL, ";"}

\* C27: a blank or comment-only line read inside a macro definition writes
\* nothing to the output and adds nothing to the macro body; read outside a
\* definition it is written to the output.
C27_DiscardedInsideDefinition ==
    [][(pc = "pre" /\ ~pre.error /\ lineno < Len(as_file)
            /\ BlankOrComment(as_file[lineno + 1]))
        => IF pre.in_macro
           THEN pre'.out = pre.out /\ pre'.macro_buf = pre.macro_buf
           ELSE pre'.out # pre.out /\ pre'.macro_buf = pre.macro_buf]_vars

\* After `mcro m` and the comment line `;c`, the definition is still open,
\* its body is empty, and the comment is in the output.
C27_CommentWrittenInsideDefinition ==
    /\ pc = "pre"
    /\ lineno = 2
    /\ as_file[1] = TextLine(MCRO, NameM)
    /\ as_file[2] = LineOf(<<";", "c">>)
    /\ pre.in_macro
    /\ pre.macro_buf = <<>>
    /\ pre.out = <<";", "c">>

\* A turn of the read loop of pass 1 or pass 2 handles the next line and
\* keeps the errors recorded so far, in order, at the front of the list;
\* the loop is left only at the end of the file.
LineByLine ==
    pc \in {"pass1", "pass2"} /\ pc' # "crashed" =>
        /\ lineno < Len(am) => pc' = pc /\ lineno' = lineno + 1
        /\ pc' # pc => lineno = Len(am) /\ lineno' = lineno
        /\ IsPrefix(p1.errors, p1'.errors)

\* Line j is reported by pass 1 / by pass 2 in the list e.
ReportedAt(e, j) == \E k \in 1..Len(e) : e[k].line = j

\* Line j is rejected by pass 1 whatever precedes it.
RejectedAlone(j) ==
    handle_line(strip_comment_inplace(am[j]), init_result, j, {}).errors # <<>>

LeadingLabel(line) ==
    LET s == ltrim(line, 1)
    IN  At(line, s) \in Alpha /\ At(line, ScanWhile(line, s, Alnum)) = ":"

IllegalLabelMessages ==
    {"illegal label name", "illegal label name (too long)", "illegal label name (reserved)"}

\* C29: pass 1 reports an illegal label only on a line whose leading
\* identifier is directly ended by a colon; the unlabelled directive
\* `.string "a:b"` is accepted and its characters pushed to the data image.
C29_LabelAnchoredAtLineStart ==
    pc = "pass1" =>
        /\ \A j \in 1..lineno :
              ~LeadingLabel(am[j]) =>
                  \A k \in 1..Len(p1.errors) :
                      p1.errors[k].line = j => p1.errors[k].msg \notin IllegalLabelMessages
        /\ (lineno = 1 /\ am[1] = TextLine(DOT_STRING, QuotedColon)) =>
              p1.ok /\ p1.data = <<Ord("a"), Ord(":"), Ord("b"), 0>> /\ p1.dc = 4

\* Pass 1 has handled the one line `.string "a:b"`: an illegal label is
\* reported and nothing was pushed.
C29_ColonInsideLiteralRejected ==
    /\ pc = "pass1"
    /\ lineno = 1
    /\ am = <<TextLine(DOT_STRING, QuotedColon)>>
    /\ ~p1.ok
    /\ Len(p1.errors) = 1
    /\ p1.errors[1].msg = "illegal label name"
    /\ p1.data = <<>> /\ p1.dc = 0

\* C30: whenever pass 1 accepted the definition of the label, the
\* instruction that uses it is resolved by pass 2: no undefined symbol is
\* reported, the name looked up is the full name, and the operand word is
\* the relocatable word (ARE = R, binary 10) of the label's address, the
\* first address after the code.
C30_DefinableIsReferencable ==
    (pc = "pass2_done" /\ p1_state = "stale") =>
        /\ p1.errors = <<>>
        /\ \E k \in 1..Len(p1.symbols) :
              /\ p1.symbols[k].name = NameOfLen(input.n)
              /\ p1.symbols[k].value = IC_INIT + Len(p2.code_final)
        /\ p2.code_final[2] = (IC_INIT + Len(p2.code_final)) * 4 + 2

\* The label of MAX_LABEL_LEN characters is defined by pass 1, and pass 2
\* reports the name cut to 30 characters as an undefined symbol.
C30_LongestLabelUndefined ==
    /\ pc = "pass2_done"
    /\ p1_state = "stale"
    /\ input = [n |-> MAX_LABEL_LEN, form |-> "direct"]
    /\ pass1_out.ok
    /\ \E k \in 1..Len(p1.symbols) : p1.symbols[k].name = NameOfLen(MAX_LABEL_LEN)
    /\ Len(p1.errors) = 1
    /\ p1.errors[1].msg = "undefined symbol"
    /\ p1.errors[1].name = NameOfLen(MAX_LABEL_LEN - 1)
    /\ p2.code_final[2] = isa_word_extern

====
